---- MODULE Spec2Model ----
(***************************************************************************)
(* A model of tjsdoc-docs-common's CoreDocResolver: the DocDB store of doc *)
(* objects and the passes of CoreDocResolver.resolve.                      *)
(*                                                                         *)
(* Strings are sequences of one-character strings, so that the regular     *)
(* expressions the resolver builds from longnames and paths are matched    *)
(* character by character, as the JavaScript RegExp engine matches them.   *)
(***************************************************************************)
EXTENDS Naturals, Integers, Sequences, FiniteSets, TLC

VARIABLES
    docs,       \* the DocDB: doc objects in insertion order
    config,     \* this._mainConfig
    pc,         \* position inside resolve()
    run,        \* number of resolve() calls completed on this store
    classIdx,   \* _resolveExtendsChain: position in `docs` of the class being processed
    cur,        \* extendsChain: position in `docs` of the loop variable `doc`
    chains,     \* extendsChain: the local `chains`
    seenData,   \* _resolveExtendsChain: the local `seenData`, as <<longname, list name>> pairs
    prevDocs,   \* the store as the previous completed resolve() left it
    doc,        \* the doc class whose create() is running: its fields and call stack
    call        \* a call of a parser method: its arguments and what it returned

vars == <<docs, config, pc, run, classIdx, cur, chains, seenData, prevDocs, doc, call>>

---------------------------------------------------------------------------
(* Bounds of the model. *)

\* resolve() is called at most MaxRuns times on one store.
MaxRuns == 2

\* extendsChain's do-while loop is followed for at most MaxChain pushes; a
\* walk that ends by itself in a store of the sizes below pushes fewer.
MaxChain == 4

---------------------------------------------------------------------------
(* Strings. *)

\* The value of a field that is not set (JavaScript's undefined / null).
Undefined == << <<"undefined">> >>

\* The same for a field that holds a string.
NoString == <<"null">>

Str1(a) == <<a>>

IsPrefixOf(p, s) == Len(p) <= Len(s) /\ SubSeq(s, 1, Len(p)) = p

Drop(s, n) == SubSeq(s, n + 1, Len(s))

RECURSIVE Reverse(_)
Reverse(s) == IF s = <<>> THEN <<>> ELSE Append(Reverse(Tail(s)), Head(s))

Includes(s, v) == \E i \in 1..Len(s) : s[i] = v

---------------------------------------------------------------------------
(* JavaScript regular expressions, for the patterns the resolver builds:   *)
(* `^` + source + tail, where source is a longname or path whose           *)
(* characters are taken as pattern text. Of the characters of the model's  *)
(* alphabet, '.' matches any character, '+' repeats the atom before it,    *)
(* an escaped character and every other character match themselves.        *)

\* The atoms of a pattern text: [ch, any, plus]. `escaped` is the set of
\* characters the caller has put a backslash before.
RECURSIVE Atoms(_, _, _)
Atoms(src, escaped, acc) ==
    IF src = <<>> THEN acc
    ELSE LET c == Head(src) IN
         IF c = "+" /\ c \notin escaped
         THEN Atoms(Tail(src), escaped,
                    [acc EXCEPT ![Len(acc)] = [@ EXCEPT !.plus = TRUE]])
         ELSE Atoms(Tail(src), escaped,
                    Append(acc, [ch |-> c,
                                 any |-> (c = "." /\ c \notin escaped),
                                 plus |-> FALSE]))

\* new RegExp(text) throws a SyntaxError ("nothing to repeat") when a '+'
\* has no atom before it or follows another quantifier.
RegexValid(src, escaped) ==
    \A i \in 1..Len(src) :
        (src[i] = "+" /\ "+" \notin escaped) => (i > 1 /\ src[i - 1] # "+")

AtomMatches(a, c) == a.any \/ a.ch = c

\* The set of positions in s right after a match of atoms[k..] that starts
\* at position pos.
RECURSIVE MatchEnds(_, _, _, _)
MatchEnds(atoms, k, s, pos) ==
    IF k > Len(atoms) THEN {pos}
    ELSE IF pos > Len(s) \/ ~AtomMatches(atoms[k], s[pos]) THEN {}
    ELSE MatchEnds(atoms, k + 1, s, pos + 1)
         \cup (IF atoms[k].plus THEN MatchEnds(atoms, k, s, pos + 1) ELSE {})

\* regex.test(s) for the pattern `^` + src + `[` + tail + `]`.
RegexTestWithTail(src, escaped, tail, s) ==
    \E e \in MatchEnds(Atoms(src, escaped, <<>>), 1, s, 1) :
        e <= Len(s) /\ s[e] \in tail

\* The position right after the match the engine reports for `^` + src:
\* a repeated atom takes as many characters as the rest of the pattern
\* allows (greedy, backtracking). 0 when there is no match.
RECURSIVE FirstMatchEnd(_, _, _, _)
FirstMatchEnd(atoms, k, s, pos) ==
    IF k > Len(atoms) THEN pos
    ELSE IF pos > Len(s) \/ ~AtomMatches(atoms[k], s[pos]) THEN 0
    ELSE LET more == IF atoms[k].plus THEN FirstMatchEnd(atoms, k, s, pos + 1) ELSE 0
         IN  IF more # 0 THEN more ELSE FirstMatchEnd(atoms, k + 1, s, pos + 1)

\* s.replace(new RegExp(`^` + src), '')
ReplacePrefix(src, escaped, s) ==
    LET e == FirstMatchEnd(Atoms(src, escaped, <<>>), 1, s, 1)
    IN  IF e = 0 THEN s ELSE Drop(s, e - 1)

---------------------------------------------------------------------------
(* The DocDB store (TaffyDB): a sequence of doc objects.                   *)

\* A doc object as the doc classes create it, before any resolve.
Doc(id, kind, qualifier, longname, name, memberof, filePath) ==
    [___id |-> id, kind |-> kind, qualifier |-> qualifier,
     longname |-> longname, name |-> name, memberof |-> memberof,
     filePath |-> filePath,
     extends |-> <<>>, implements |-> <<>>,
     export |-> "undefined", access |-> "null",
     ignore |-> FALSE, undocument |-> FALSE,
     testTargets |-> Undefined,
     _custom_tests |-> Undefined,
     _custom_test_targets |-> Undefined,
     _custom_dependent_file_paths |-> Undefined,
     _custom_direct_implemented |-> Undefined,
     _custom_direct_subclasses |-> Undefined,
     _custom_extends_chains |-> Undefined,
     _custom_indirect_implemented |-> Undefined,
     _custom_indirect_implements |-> Undefined,
     _custom_indirect_subclasses |-> Undefined]

\* docDB.find(...)[0] as a position in the store; 0 when nothing matches.
First(db, Match(_)) ==
    IF \E i \in 1..Len(db) : Match(db[i])
    THEN CHOOSE i \in 1..Len(db) : Match(db[i]) /\ \A j \in 1..(i - 1) : ~Match(db[j])
    ELSE 0

\* docDB.findByName(name)[0]: the first doc whose longname is `name`.
findByName(db, name) == First(db, LAMBDA d : d.longname = name)

\* docDB.query(...).update(fn): fn applied to every matching doc, in order.
Update(db, Match(_), Fn(_)) ==
    [i \in 1..Len(db) |-> IF Match(db[i]) THEN Fn(db[i]) ELSE db[i]]

\* docDB.query(...).remove()
Remove(db, Match(_)) == SelectSeq(db, LAMBDA d : ~Match(d))

\* A list field read as `field || []`.
ListOrEmpty(l) == IF l = Undefined THEN <<>> ELSE l

---------------------------------------------------------------------------
(* CoreDocResolver._resolveAccess *)

DefaultAccess == <<"public", "protected", "private">>

AccessUndefined == <<"undefined">>

\* The access of a doc with autoPrivate left out.
AccessOrPublic(d) == IF d.access = "null" THEN "public" ELSE d.access

ResolvedAccess(d) ==
    IF d.access = "null"
    THEN IF config.autoPrivate /\ d.name # <<>> /\ Head(d.name) = "_"
         THEN "private" ELSE "public"
    ELSE d.access

AllowedAccess ==
    IF config.access = AccessUndefined THEN DefaultAccess ELSE config.access

_resolveAccess(db) ==
    Update(db, LAMBDA d : TRUE,
           LAMBDA d : [d EXCEPT !.access = ResolvedAccess(d),
                                !.ignore = IF ~Includes(AllowedAccess, ResolvedAccess(d))
                                           THEN TRUE ELSE @])

---------------------------------------------------------------------------
(* CoreDocResolver._resolveNecessary *)

childNames(d) ==
    ListOrEmpty(d._custom_direct_subclasses)
    \o ListOrEmpty(d._custom_indirect_subclasses)
    \o ListOrEmpty(d._custom_direct_implemented)
    \o ListOrEmpty(d._custom_indirect_implemented)

\* The loop over the direct subclasses alone.
NecessaryDirectOnly(db, d) ==
    \E k \in 1..Len(ListOrEmpty(d._custom_direct_subclasses)) :
        LET c == findByName(db, d._custom_direct_subclasses[k])
        IN  c # 0 /\ ~db[c].ignore /\ db[c].export = "true"

\* The update callback's loop over childNames: does it reach `doc.export = true`?
Necessary(db, d) ==
    \E k \in 1..Len(childNames(d)) :
        LET c == findByName(db, childNames(d)[k])
        IN  c # 0 /\ ~db[c].ignore /\ db[c].export = "true"

\* The docs are updated one after the other: a later callback reads what an
\* earlier one wrote.
RECURSIVE NecessaryFrom(_, _)
NecessaryFrom(db, i) ==
    IF i > Len(db) THEN db
    ELSE IF db[i].export = "false" /\ Necessary(db, db[i])
         THEN NecessaryFrom([db EXCEPT ![i].export = "true"], i + 1)
         ELSE NecessaryFrom(db, i + 1)

_resolveNecessary(db) == NecessaryFrom(db, 1)

---------------------------------------------------------------------------
(* CoreDocResolver._resolveUnexportIdentifier, _resolveUndocumentIdentifier *)

\* The pass with the option read the other way round.
UnexportIdentifierInverted(db) ==
    IF config.unexportIdentifier
    THEN Update(db, LAMBDA d : d.export = "false", LAMBDA d : [d EXCEPT !.ignore = TRUE])
    ELSE db

_resolveUnexportIdentifier(db) ==
    IF ~config.unexportIdentifier
    THEN Update(db, LAMBDA d : d.export = "false", LAMBDA d : [d EXCEPT !.ignore = TRUE])
    ELSE db

_resolveUndocumentIdentifier(db) ==
    IF ~config.undocumentIdentifier
    THEN Update(db, LAMBDA d : d.undocument, LAMBDA d : [d EXCEPT !.ignore = TRUE])
    ELSE db

---------------------------------------------------------------------------
(* CoreDocResolver._resolveDuplication *)

IsMemberKind(d) == d.kind \in {"ClassMember", "ClassProperty"}

\* A lookup that finds no doc.
FindsNoMethod(db, longname) == <<>>

FindsNoMember(db, longname) == <<>>

\* find({ longname, kind: 'ClassMethod', qualifier: ['get', 'method', 'set'] })
nonMemberDup(db, longname) ==
    SelectSeq(db, LAMBDA d : /\ d.longname = longname
                             /\ d.kind = "ClassMethod"
                             /\ d.qualifier \in {"get", "method", "set"})

\* find({ longname, kind: ['ClassMember', 'ClassProperty'] })
dup(db, longname) ==
    SelectSeq(db, LAMBDA d : d.longname = longname /\ IsMemberKind(d))

RECURSIVE Insert(_, _)
Insert(sorted, v) ==
    IF sorted = <<>> THEN <<v>>
    ELSE IF v < Head(sorted) THEN <<v>> \o sorted
    ELSE <<Head(sorted)>> \o Insert(Tail(sorted), v)

\* ids.sort((a, b) => a < b ? -1 : 1)
RECURSIVE SortIds(_)
SortIds(ids) == IF ids = <<>> THEN <<>> ELSE Insert(SortIds(Tail(ids)), Head(ids))

\* ids.sort(...); ids.pop(): the highest id is kept.
DupIdsBelowHighest(ids) == SubSeq(SortIds(ids), 1, Len(ids) - 1)

\* ids.sort(...); ids.shift(): the ids that are pushed to ignoreId.
DupIdsToIgnore(ids) == Tail(SortIds(ids))

\* What one iteration of the loop over the member docs pushes to ignoreId.
IgnoreIdsOf(db, d) ==
    IF Len(nonMemberDup(db, d.longname)) > 0 THEN <<d.___id>>
    ELSE IF Len(dup(db, d.longname)) > 1
         THEN DupIdsToIgnore([k \in 1..Len(dup(db, d.longname)) |-> dup(db, d.longname)[k].___id])
         ELSE <<>>

RECURSIVE ignoreId(_, _)
ignoreId(db, i) ==
    IF i > Len(db) THEN <<>>
    ELSE (IF IsMemberKind(db[i]) THEN IgnoreIdsOf(db, db[i]) ELSE <<>>) \o ignoreId(db, i + 1)

_resolveDuplication(db) ==
    Update(db, LAMBDA d : Includes(ignoreId(db, 1), d.___id),
           LAMBDA d : [d EXCEPT !.ignore = TRUE])

---------------------------------------------------------------------------
(* CoreDocResolver._resolveIgnore *)

\* The characters after the longname in the pattern: [.~#]
ScopeSeparators == {".", "~", "#"}

\* new RegExp(`^${longname}[.~#]`), longname with every '$' escaped, tested
\* against another longname.
IgnoreRegexTest(longname, other) ==
    RegexTestWithTail(longname, {"$"}, ScopeSeparators, other)

\* The loop over the docs found with { ignore: true }: each removes the docs
\* its pattern matches.
RECURSIVE IgnoreLoop(_, _)
IgnoreLoop(db, flagged) ==
    IF flagged = <<>> THEN db
    ELSE IgnoreLoop(Remove(db, LAMBDA d : IgnoreRegexTest(Head(flagged).longname, d.longname)),
                    Tail(flagged))

_resolveIgnore(db) ==
    Remove(IgnoreLoop(db, SelectSeq(db, LAMBDA d : d.ignore)), LAMBDA d : d.ignore)

\* new RegExp(...) throws for one of the flagged docs.
IgnoreThrows(db) ==
    \E i \in 1..Len(db) : db[i].ignore /\ ~RegexValid(db[i].longname, {"$"})

---------------------------------------------------------------------------
(* CoreDocResolver._resolveCommonPath *)

\* find({ kind: { '!is': 'ModuleMemory' } }, { kind: { '!is': 'VirtualExternal' } }):
\* the two arguments are alternatives.
CommonPathDocs(d) == d.kind # "ModuleMemory" \/ d.kind # "VirtualExternal"

RECURSIVE CommonPrefix(_, _)
CommonPrefix(a, b) ==
    IF a = <<>> \/ b = <<>> \/ Head(a) # Head(b) THEN <<>>
    ELSE <<Head(a)>> \o CommonPrefix(Tail(a), Tail(b))

\* A path cut back to its last '/' (the whole directory part).
RECURSIVE DirPart(_)
DirPart(p) ==
    IF p = <<>> \/ p[Len(p)] = "/" THEN p ELSE DirPart(SubSeq(p, 1, Len(p) - 1))

RECURSIVE CommonPrefixAll(_, _)
CommonPrefixAll(db, i) ==
    IF i > Len(db) THEN NoString
    ELSE IF ~CommonPathDocs(db[i]) THEN CommonPrefixAll(db, i + 1)
    ELSE LET rest == CommonPrefixAll(db, i + 1)
         IN  IF rest = NoString THEN db[i].filePath
             ELSE CommonPrefix(db[i].filePath, rest)

\* 'typhonjs:util:file:path:common:mapped' over the docs' filePath: the
\* directories all the paths share.
CommonMappedPath(db) ==
    IF CommonPrefixAll(db, 1) = NoString THEN <<>> ELSE DirPart(CommonPrefixAll(db, 1))

\* The backslashes and slashes of the path are escaped; nothing else is.
StripCommonPath(commonPath, s) ==
    IF s = <<>> \/ s = NoString THEN s ELSE ReplacePrefix(commonPath, {"\\", "/"}, s)

_resolveCommonPath(db) ==
    IF ~(\E i \in 1..Len(db) : CommonPathDocs(db[i])) THEN db
    ELSE IF CommonMappedPath(db) = <<>> THEN db
    ELSE Update(db, CommonPathDocs,
                LAMBDA d : [d EXCEPT !.longname = StripCommonPath(CommonMappedPath(db), @),
                                     !.memberof = StripCommonPath(CommonMappedPath(db), @),
                                     !.name = StripCommonPath(CommonMappedPath(db), @)])

CommonPathThrows(db) ==
    /\ \E i \in 1..Len(db) : CommonPathDocs(db[i])
    /\ ~RegexValid(CommonMappedPath(db), {"\\", "/"})

---------------------------------------------------------------------------
(* CoreDocResolver._resolveExtendsChain *)

\* The store and seenData, threaded through the statements of the pass.
St(db, seen) == [db |-> db, seen |-> seen]

\* A list is initialised only while it is undefined, whatever seenData holds.
InitListOnce(s, i, type) ==
    IF s.db[i][type] # Undefined THEN s
    ELSE St([s.db EXCEPT ![i][type] = <<>>], s.seen \cup {<<s.db[i].longname, type>>})

\* if (!seen(doc, type)) { doc[type] = []; }   for the doc at position i
InitList(s, i, type) ==
    IF <<s.db[i].longname, type>> \in s.seen THEN s
    ELSE St([s.db EXCEPT ![i][type] = <<>>], s.seen \cup {<<s.db[i].longname, type>>})

\* doc[type].push(v)
Push(s, i, type, v) == St([s.db EXCEPT ![i][type] = Append(@, v)], s.seen)

\* doc[type].push(...vs)
PushAll(s, i, type, vs) == St([s.db EXCEPT ![i][type] = @ \o vs], s.seen)

\* The guarded initialisations and the two pushes that record `self` on a
\* super class or interface doc.
Record(s, sup, type, self) ==
    Push(Push(InitList(InitList(s, sup, type), sup, "_custom_dependent_file_paths"),
              sup, type, s.db[self].longname),
         sup, "_custom_dependent_file_paths", s.db[self].filePath)

\* for (const superClassLongname of names) { ... } of the direct / indirect
\* subclass and implemented blocks.
RECURSIVE RecordOnEach(_, _, _, _)
RecordOnEach(s, names, type, self) ==
    IF names = <<>> THEN s
    ELSE LET sup == findByName(s.db, Head(names))
         IN  RecordOnEach(IF sup = 0 THEN s ELSE Record(s, sup, type, self),
                          Tail(names), type, self)

\* for (const superClassLongname of chains) { ... indirect implements ... }
RECURSIVE IndirectImplements(_, _, _)
IndirectImplements(s, names, self) ==
    IF names = <<>> THEN s
    ELSE LET sup == findByName(s.db, Head(names))
         IN  IndirectImplements(
                 IF sup = 0 \/ s.db[sup].implements = <<>> THEN s
                 ELSE PushAll(InitList(s, self, "_custom_indirect_implements"),
                              self, "_custom_indirect_implements", s.db[sup].implements),
                 Tail(names), self)

\* The block with the chain stored as it was walked, nearest ancestor first.
extendsChainListsUnreversed(s, ch, self) ==
    IF ch = <<>> THEN s
    ELSE LET direct == RecordOnEach(s, <<Head(ch)>>, "_custom_direct_subclasses", self)
             indirect == RecordOnEach(direct, Tail(ch), "_custom_indirect_subclasses", self)
             impl == IndirectImplements(indirect, ch, self)
         IN  St([impl.db EXCEPT ![self]._custom_extends_chains = ch], impl.seen)

\* extendsChain(doc) after the do-while loop: the `if (chains.length)` block.
extendsChainLists(s, ch, self) ==
    IF ch = <<>> THEN s
    ELSE LET direct == RecordOnEach(s, <<Head(ch)>>, "_custom_direct_subclasses", self)
             indirect == RecordOnEach(direct, Tail(ch), "_custom_indirect_subclasses", self)
             impl == IndirectImplements(indirect, ch, self)
         IN  St([impl.db EXCEPT ![self]._custom_extends_chains = Reverse(ch)], impl.seen)

\* implemented(doc) without its second loop.
implementedDirectOnly(s, self) ==
    RecordOnEach(s, s.db[self].implements, "_custom_direct_implemented", self)

\* implemented(doc)
implemented(s, self) ==
    LET direct == RecordOnEach(s, s.db[self].implements, "_custom_direct_implemented", self)
    IN  RecordOnEach(direct, ListOrEmpty(direct.db[self]._custom_indirect_implements),
                     "_custom_indirect_implemented", self)

\* docDB.find({ kind: 'ModuleFile', filePath: doc.filePath })[0]
fileDoc(db, d) ==
    First(db, LAMBDA f : f.kind = "ModuleFile" /\ f.filePath = d.filePath)

\* for (const filePath of doc._custom_dependent_file_paths) { if (!includes) push }
RECURSIVE AddPaths(_, _, _)
AddPaths(s, f, paths) ==
    IF paths = <<>> THEN s
    ELSE AddPaths(IF Includes(s.db[f]._custom_dependent_file_paths, Head(paths)) THEN s
                  ELSE Push(s, f, "_custom_dependent_file_paths", Head(paths)),
                  f, Tail(paths))

\* The second loop over the class docs: the dependent file paths of each
\* class are added to its file doc.
RECURSIVE FileDependencies(_, _)
FileDependencies(s, i) ==
    IF i > Len(s.db) THEN s
    ELSE IF s.db[i].kind # "ModuleClass"
            \/ s.db[i]._custom_dependent_file_paths = Undefined
         THEN FileDependencies(s, i + 1)
    ELSE LET f == fileDoc(s.db, s.db[i])
         IN  FileDependencies(
                 AddPaths(InitList(s, f, "_custom_dependent_file_paths"), f,
                          s.db[i]._custom_dependent_file_paths),
                 i + 1)

\* seen(fileDoc, ...) reads fileDoc.longname: a TypeError when a class with
\* dependent file paths has no file doc.
FileDependenciesThrows(db) ==
    \E i \in 1..Len(db) :
        /\ db[i].kind = "ModuleClass"
        /\ db[i]._custom_dependent_file_paths # Undefined
        /\ fileDoc(db, db[i]) = 0

\* The position of the next class doc after position i, 0 when there is none.
NextClass(db, i) ==
    IF \E j \in (i + 1)..Len(db) : db[j].kind = "ModuleClass"
    THEN CHOOSE j \in (i + 1)..Len(db) :
             /\ db[j].kind = "ModuleClass"
             /\ \A k \in (i + 1)..(j - 1) : db[k].kind # "ModuleClass"
    ELSE 0

---------------------------------------------------------------------------
(* CoreDocResolver._resolveTestRelation: the _custom_tests and             *)
(* _custom_test_targets lists. (The description texts it joins into        *)
(* testFullDescription are not part of the model's doc objects.)           *)

\* for (const testTarget of testTargets) { ... }
RECURSIVE TestTargets(_, _, _)
TestTargets(s, t, targets) ==
    IF targets = <<>> THEN s
    ELSE LET d == findByName(s.db, Head(targets))
             s1 == IF d = 0 THEN s
                   ELSE Push(InitList(s, d, "_custom_tests"), d, "_custom_tests",
                             s.db[t].longname)
             entry == IF d = 0 THEN <<Head(targets), Head(targets)>>
                      ELSE <<s.db[d].longname, Head(targets)>>
         IN  TestTargets(Push(InitList(s1, t, "_custom_test_targets"), t,
                              "_custom_test_targets", entry),
                         t, Tail(targets))

RECURSIVE TestRelationFrom(_, _)
TestRelationFrom(s, i) ==
    IF i > Len(s.db) THEN s
    ELSE IF s.db[i].kind # "Test" \/ s.db[i].testTargets = Undefined
         THEN TestRelationFrom(s, i + 1)
    ELSE TestRelationFrom(TestTargets(s, i, s.db[i].testTargets), i + 1)

_resolveTestRelation(db) == TestRelationFrom(St(db, {}), 1).db

---------------------------------------------------------------------------
(* CoreDocResolver.resolve: the passes, in order. *)

ExtendsLocals == <<classIdx, cur, chains, seenData>>

\* resolve() is called on the store.
Resolve ==
    /\ pc \in {"idle", "done"}
    /\ run < MaxRuns
    /\ pc' = "commonPath"
    /\ prevDocs' = docs
    /\ UNCHANGED <<docs, config, doc, call, run, ExtendsLocals>>

ResolveCommonPath ==
    /\ pc = "commonPath"
    /\ IF config.removeCommonPath /\ CommonPathThrows(docs)
       THEN pc' = "error" /\ UNCHANGED docs
       ELSE /\ pc' = "extends"
            /\ docs' = IF config.removeCommonPath THEN _resolveCommonPath(docs) ELSE docs
    /\ classIdx' = 0
    /\ cur' = 0
    /\ chains' = <<>>
    /\ seenData' = {}
    /\ UNCHANGED <<config, doc, call, run, prevDocs>>

\* The loop `for (const doc of docs)` of _resolveExtendsChain takes the next
\* class doc and calls extendsChain(doc), which returns at once for a class
\* without `extends`; after the last class the file docs are updated.
ExtendsChainStart ==
    /\ pc = "extends"
    /\ LET j == NextClass(docs, classIdx) IN
       IF j = 0
       THEN /\ pc' = "fileDependencies"
            /\ UNCHANGED <<classIdx, cur, chains>>
       ELSE /\ classIdx' = j
            /\ cur' = j
            /\ chains' = <<>>
            /\ pc' = IF docs[j].extends = <<>> THEN "implemented" ELSE "walk"
    /\ UNCHANGED <<docs, config, doc, call, run, seenData, prevDocs>>

\* The walk without the check for the origin.
NeverCircular(db, superClassDoc, selfDoc) == FALSE

\* if (superClassDoc.longname === selfDoc.longname) { break; }
IsCircularExtends(db, superClassDoc, selfDoc) ==
    db[superClassDoc].longname = db[selfDoc].longname

\* One iteration of extendsChain's do-while loop.
ExtendsChainWalk ==
    /\ pc = "walk"
    /\ Len(chains) < MaxChain
    /\ LET superClassDoc == findByName(docs, docs[cur].extends[1]) IN
       IF superClassDoc # 0
       THEN IF IsCircularExtends(docs, superClassDoc, classIdx)
            THEN /\ pc' = "lists"
                 /\ UNCHANGED <<chains, cur>>
            ELSE /\ chains' = Append(chains, docs[superClassDoc].longname)
                 /\ cur' = superClassDoc
                 /\ pc' = IF docs[superClassDoc].extends # <<>> THEN "walk" ELSE "lists"
       ELSE /\ chains' = Append(chains, docs[cur].extends[1])
            /\ pc' = "lists"
            /\ UNCHANGED cur
    /\ UNCHANGED <<docs, config, doc, call, run, classIdx, seenData, prevDocs>>

\* The rest of extendsChain(doc): the derived lists.
ExtendsChainLists ==
    /\ pc = "lists"
    /\ LET s == extendsChainLists(St(docs, seenData), chains, classIdx) IN
       /\ docs' = s.db
       /\ seenData' = s.seen
    /\ pc' = "implemented"
    /\ UNCHANGED <<config, doc, call, run, classIdx, cur, chains, prevDocs>>

\* implemented(doc)
Implemented ==
    /\ pc = "implemented"
    /\ LET s == implemented(St(docs, seenData), classIdx) IN
       /\ docs' = s.db
       /\ seenData' = s.seen
    /\ pc' = "extends"
    /\ UNCHANGED <<config, doc, call, run, classIdx, cur, chains, prevDocs>>

ExtendsFileDependencies ==
    /\ pc = "fileDependencies"
    /\ IF FileDependenciesThrows(docs)
       THEN pc' = "error" /\ UNCHANGED <<docs, seenData>>
       ELSE LET s == FileDependencies(St(docs, seenData), 1) IN
            /\ docs' = s.db
            /\ seenData' = s.seen
            /\ pc' = "necessary"
    /\ UNCHANGED <<config, doc, call, run, classIdx, cur, chains, prevDocs>>

\* A pass that is one whole-store update.
Pass(at, next, result) ==
    /\ pc = at
    /\ docs' = result
    /\ pc' = next
    /\ UNCHANGED <<config, doc, call, run, ExtendsLocals, prevDocs>>

ResolveNecessary == Pass("necessary", "access", _resolveNecessary(docs))

ResolveAccess == Pass("access", "unexport", _resolveAccess(docs))

ResolveUnexportIdentifier == Pass("unexport", "undocument", _resolveUnexportIdentifier(docs))

ResolveUndocumentIdentifier ==
    Pass("undocument", "duplication", _resolveUndocumentIdentifier(docs))

ResolveDuplication == Pass("duplication", "ignore", _resolveDuplication(docs))

ResolveIgnore ==
    /\ pc = "ignore"
    /\ IF IgnoreThrows(docs)
       THEN pc' = "error" /\ UNCHANGED docs
       ELSE pc' = "testRelation" /\ docs' = _resolveIgnore(docs)
    /\ UNCHANGED <<config, doc, call, run, ExtendsLocals, prevDocs>>

\* The last pass; resolve() returns.
ResolveTestRelation ==
    /\ pc = "testRelation"
    /\ docs' = _resolveTestRelation(docs)
    /\ pc' = "done"
    /\ run' = run + 1
    /\ UNCHANGED <<config, doc, call, ExtendsLocals, prevDocs>>

Next ==
    \/ Resolve
    \/ ResolveCommonPath
    \/ ExtendsChainStart
    \/ ExtendsChainWalk
    \/ ExtendsChainLists
    \/ Implemented
    \/ ExtendsFileDependencies
    \/ ResolveNecessary
    \/ ResolveAccess
    \/ ResolveUnexportIdentifier
    \/ ResolveUndocumentIdentifier
    \/ ResolveDuplication
    \/ ResolveIgnore
    \/ ResolveTestRelation

---------------------------------------------------------------------------
(* Initial stores. *)

\* The default configuration: every option off, the access list not set.
DefaultConfig ==
    [removeCommonPath |-> FALSE, access |-> AccessUndefined, autoPrivate |-> FALSE,
     unexportIdentifier |-> FALSE, undocumentIdentifier |-> TRUE]

\* No doc is being created and no parser method is called.
NoDoc == [at |-> "none"]

NoCall == [at |-> "none"]

InitControl ==
    /\ doc = NoDoc
    /\ call = NoCall
    /\ pc = "idle"
    /\ run = 0
    /\ classIdx = 0
    /\ cur = 0
    /\ chains = <<>>
    /\ seenData = {}
    /\ prevDocs = docs

\* The file all the docs of these stores come from.
FilePath == <<"f">>

FileDoc(id) == Doc(id, "ModuleFile", "", FilePath, FilePath, NoString, FilePath)

Scoped(scope, sep, name) == scope \o <<sep>> \o name

ClassLongname(n) == Scoped(FilePath, "~", Str1(n))

ClassDoc(id, n, ext, exp, ign) ==
    [Doc(id, "ModuleClass", "", ClassLongname(n), Str1(n), FilePath, FilePath)
        EXCEPT !.extends = ext, !.export = exp, !.ignore = ign]

\* What a class may name in `extends`: nothing, a class of the store (itself
\* included), or a class no doc stands for.
ExtendsChoices ==
    {<<>>, <<ClassLongname("A")>>, <<ClassLongname("B")>>, <<ClassLongname("C")>>,
     <<Str1("X")>>}

\* Stores of one file with three classes, with every extends relation among
\* them and every combination of exported and unexported classes.
InitChain ==
    /\ \E ea \in ExtendsChoices, eb \in ExtendsChoices, ec \in ExtendsChoices,
          xa \in {"true", "false"}, xb \in {"true", "false"}, xc \in {"true", "false"},
          ic \in BOOLEAN :
          docs = <<FileDoc(1), ClassDoc(2, "A", ea, xa, FALSE), ClassDoc(3, "B", eb, xb, FALSE),
                   ClassDoc(4, "C", ec, xc, ic)>>
    /\ \E u \in BOOLEAN : config = [DefaultConfig EXCEPT !.unexportIdentifier = u]
    /\ InitControl

SpecChain == InitChain /\ [][Next]_vars

\* Stores of one file with three exported classes, with every extends
\* relation among them: chains, a class that extends itself, cycles of two
\* and three classes, chains that lead into a cycle.
InitCycle ==
    /\ \E ea \in ExtendsChoices, eb \in ExtendsChoices, ec \in ExtendsChoices :
          docs = <<FileDoc(1), ClassDoc(2, "A", ea, "true", FALSE),
                   ClassDoc(3, "B", eb, "true", FALSE), ClassDoc(4, "C", ec, "true", FALSE)>>
    /\ config = DefaultConfig
    /\ InitControl

\* resolve() is synchronous code that runs on until it returns or throws: an
\* iteration of extendsChain's do-while loop that can be taken is taken. (The
\* other steps of the pass are loops over finite lists; the do-while loop is
\* the one loop of the pass whose end depends on the store.)
SpecCycle == InitCycle /\ [][Next]_vars /\ WF_vars(ExtendsChainWalk)

\* What classes A and B may name in `implements`.
ImplementsChoices == {<<>>, <<ClassLongname("C")>>}

\* Stores of one file with three exported classes, with every extends
\* relation among them, where A and B may implement C: resolve() removes no
\* doc of these stores.
InitTwice ==
    /\ \E ea \in ExtendsChoices, eb \in ExtendsChoices, ec \in ExtendsChoices,
          ia \in ImplementsChoices, ib \in ImplementsChoices :
          docs = <<FileDoc(1),
                   [ClassDoc(2, "A", ea, "true", FALSE) EXCEPT !.implements = ia],
                   [ClassDoc(3, "B", eb, "true", FALSE) EXCEPT !.implements = ib],
                   ClassDoc(4, "C", ec, "true", FALSE)>>
    /\ config = DefaultConfig
    /\ InitControl

SpecTwice == InitTwice /\ [][Next]_vars

\* What a class may name in `implements`, one name for each @implements tag:
\* classes I and J of the store, one of them twice, a name no doc stands for.
InterfaceChoices ==
    {<<>>, <<ClassLongname("I")>>, <<ClassLongname("I"), ClassLongname("I")>>,
     <<ClassLongname("I"), ClassLongname("J")>>, <<Str1("X")>>}

\* Stores of one file with the exported classes A, B, C, I and J: A may
\* extend a class no doc stands for, B may extend A, C may extend A or B, and
\* each of A, B, C may implement I and J.
InitImplements ==
    /\ \E ea \in {<<>>, <<Str1("X")>>}, eb \in {<<>>, <<ClassLongname("A")>>},
          ec \in {<<>>, <<ClassLongname("A")>>, <<ClassLongname("B")>>},
          ia \in InterfaceChoices, ib \in InterfaceChoices, ic \in InterfaceChoices :
          docs = <<FileDoc(1),
                   [ClassDoc(2, "A", ea, "true", FALSE) EXCEPT !.implements = ia],
                   [ClassDoc(3, "B", eb, "true", FALSE) EXCEPT !.implements = ib],
                   [ClassDoc(4, "C", ec, "true", FALSE) EXCEPT !.implements = ic],
                   ClassDoc(5, "I", <<>>, "true", FALSE), ClassDoc(6, "J", <<>>, "true", FALSE)>>
    /\ config = DefaultConfig
    /\ InitControl

SpecImplements == InitImplements /\ [][Next]_vars

\* A doc of kind `kind` that comes from the file at `path`.
PathDoc(id, kind, path, n) ==
    Doc(id, kind, "", path \o <<"~">> \o Str1(n), Str1(n), path, path)

\* The doc of code held in memory (ModuleMemoryDoc).
MemoryDoc(id, path) ==
    Doc(id, "ModuleMemory", "", <<"I", "n", " ", "m", "e", "m", "o", "r", "y", " ", "c", "o", "d", "e">>, <<"I", "n", " ", "m", "e", "m", "o", "r", "y", " ", "c", "o", "d", "e">>, NoString, path)

\* Stores of a file with class A and class B that extends A, with or without
\* a doc of code in memory and a doc of an external, in the directory of the
\* file or in another one; removeCommonPath is set.
InitCommon ==
    /\ \E pb \in {<<"s", "/", "a">>, <<"s", "/", "b">>}, pm \in {<<>>, <<"s", "/", "m">>, <<"m">>}, px \in {<<>>, <<"s", "/", "x">>, <<"e", "/", "x">>} :
          docs = <<Doc(1, "ModuleFile", "", <<"s", "/", "a">>, <<"s", "/", "a">>, NoString, <<"s", "/", "a">>),
                   [PathDoc(2, "ModuleClass", <<"s", "/", "a">>, "A") EXCEPT !.export = "true"],
                   [PathDoc(3, "ModuleClass", pb, "B")
                        EXCEPT !.export = "true", !.extends = <<<<"s", "/", "a">> \o <<"~", "A">> >>]>>
                 \o (IF pm = <<>> THEN <<>> ELSE <<MemoryDoc(4, pm)>>)
                 \o (IF px = <<>> THEN <<>> ELSE <<PathDoc(5, "VirtualExternal", px, "E")>>)
    /\ config = [DefaultConfig EXCEPT !.removeCommonPath = TRUE]
    /\ InitControl

SpecCommon == InitCommon /\ [][Next]_vars

\* The docs every store below starts with: the file, class A and class B
\* that extends A.
BaseDocs(ignA) ==
    <<FileDoc(1), ClassDoc(2, "A", <<>>, "true", ignA),
      ClassDoc(3, "B", <<ClassLongname("A")>>, "true", FALSE)>>

\* kind and qualifier of the docs of a class body.
MemberShapes ==
    {<<"ClassMember", "">>, <<"ClassProperty", "">>, <<"ClassMethod", "get">>,
     <<"ClassMethod", "set">>, <<"ClassMethod", "method">>}

\* A doc of the body of class A: its longname is the class longname, '#' and
\* its name.
MemberDoc(id, shape, n, ign) ==
    [Doc(id, shape[1], shape[2], Scoped(ClassLongname("A"), "#", Str1(n)), Str1(n),
         ClassLongname("A"), FilePath)
        EXCEPT !.ignore = ign]

\* Stores with three docs in the body of class A, of every kind, that share a
\* name or do not; the first of them and the class may carry @ignore. The
\* store holds them in the order of their ids or in the opposite order (a
\* TaffyDB store that has been sorted is not in id order).
InitDup ==
    /\ \E s1 \in MemberShapes, s2 \in MemberShapes, s3 \in MemberShapes,
          n2 \in {"y", "z"}, n3 \in {"y", "z"}, i1 \in BOOLEAN, ia \in BOOLEAN,
          ids \in {<<4, 5, 6>>, <<6, 5, 4>>} :
          docs = BaseDocs(ia) \o <<MemberDoc(ids[1], s1, "y", i1), MemberDoc(ids[2], s2, n2, FALSE),
                                   MemberDoc(ids[3], s3, n3, FALSE)>>
    /\ config = DefaultConfig
    /\ InitControl

SpecDup == InitDup /\ [][Next]_vars

\* Longnames of docs in an enclosing scope and out of it, with characters
\* that are pattern syntax in a regular expression ('+', '.', '$').
IgnoreLongnames ==
    {<<"F">>, <<"F", "#", "b">>, <<"F", ".", "b">>, <<"F", "b">>, <<"F", "#", "b", "~", "c">>,
     <<"a", "+">>, <<"a", "+", "#", "b">>, <<"a", "a", "#", "b">>,
     <<"$">>, <<"$", "~", "b">>}

VariableDoc(id, longname, ign) ==
    [Doc(id, "ModuleVariable", "", longname, longname, FilePath, FilePath)
        EXCEPT !.export = "true", !.ignore = ign]

\* Stores with three more docs whose longnames are drawn from
\* IgnoreLongnames; the first two may carry @ignore.
InitIgnore ==
    /\ \E l1 \in IgnoreLongnames, l2 \in IgnoreLongnames, l3 \in IgnoreLongnames,
          i1 \in BOOLEAN, i2 \in BOOLEAN :
          docs = BaseDocs(FALSE) \o <<VariableDoc(4, l1, i1), VariableDoc(5, l2, i2),
                                       VariableDoc(6, l3, FALSE)>>
    /\ config = DefaultConfig
    /\ InitControl

SpecIgnore == InitIgnore /\ [][Next]_vars

\* The values of `access` the doc classes set: null without an access tag.
AccessValues == {"null", "public", "protected", "private"}

\* The `access` option of the configuration: not set, or a list of levels.
AccessOptions ==
    {AccessUndefined, <<"public">>, <<"public", "protected">>, <<"private">>, <<>>}

AccessDoc(id, n, acc, ign) ==
    [Doc(id, "ModuleVariable", "", Scoped(FilePath, "~", n), n, FilePath, FilePath)
        EXCEPT !.export = "true", !.access = acc, !.ignore = ign]

\* Stores with two more docs, one with a name that starts with '_', with
\* every access value, under every access option, autoPrivate on and off.
InitAccess ==
    /\ \E a1 \in AccessValues, a2 \in AccessValues, i1 \in BOOLEAN, ab \in AccessValues :
          docs = [BaseDocs(FALSE) EXCEPT ![3].access = ab]
                 \o <<AccessDoc(4, <<"_", "x">>, a1, i1), AccessDoc(5, <<"x">>, a2, FALSE)>>
    /\ \E acc \in AccessOptions, ap \in BOOLEAN :
          config = [DefaultConfig EXCEPT !.access = acc, !.autoPrivate = ap]
    /\ InitControl

SpecAccess == InitAccess /\ [][Next]_vars

\* A class as the doc classes make it, with an access level and with or
\* without documentation.
AccessClassDoc(id, n, ext, exp, acc, und) ==
    [ClassDoc(id, n, ext, exp, FALSE) EXCEPT !.access = acc, !.undocument = und]

\* Stores with class A, exported or not, and the classes B and C that extend
\* A or nothing: B with every access level, C documented or not; under an
\* access option that is not set or public only, with the undocumented and
\* the unexported docs kept or not.
InitNecessary ==
    /\ \E xa \in {"true", "false"}, xb \in {"true", "false"}, ab \in AccessValues,
          eb \in {<<>>, <<ClassLongname("A")>>}, ec \in {<<>>, <<ClassLongname("A")>>},
          uc \in BOOLEAN :
          docs = <<FileDoc(1), ClassDoc(2, "A", <<>>, xa, FALSE),
                   AccessClassDoc(3, "B", eb, xb, ab, FALSE),
                   AccessClassDoc(4, "C", ec, "true", "null", uc)>>
    /\ \E acc \in {AccessUndefined, <<"public">>}, ud \in BOOLEAN, u \in BOOLEAN :
          config = [DefaultConfig EXCEPT !.access = acc, !.undocumentIdentifier = ud,
                                         !.unexportIdentifier = u]
    /\ InitControl

SpecNecessary == InitNecessary /\ [][Next]_vars

---------------------------------------------------------------------------
(* The extends relation of a store, for the statements about it. *)

IsClass(d) == d.kind = "ModuleClass"

\* The doc the `extends` of the doc at position i names; 0 when it names
\* none or the doc has no `extends`.
SuperOf(db, i) == IF db[i].extends = <<>> THEN 0 ELSE findByName(db, db[i].extends[1])

\* The ancestors of the doc at position i, nearest first, at most n of them.
RECURSIVE AncestorsOf(_, _, _)
AncestorsOf(db, i, n) ==
    IF n = 0 \/ SuperOf(db, i) = 0 THEN <<>>
    ELSE <<SuperOf(db, i)>> \o AncestorsOf(db, SuperOf(db, i), n - 1)

Ancestors(db, i) == AncestorsOf(db, i, Len(db))

\* Every `extends` names a doc of the store and no class is its own ancestor.
AcyclicResolved(db) ==
    \A i \in 1..Len(db) :
        IsClass(db[i]) =>
            /\ db[i].extends # <<>> => SuperOf(db, i) # 0
            /\ ~Includes(Ancestors(db, i), i)

\* No doc carries a list an earlier resolve derived.
Fresh(db) ==
    \A i \in 1..Len(db) :
        /\ db[i]._custom_direct_subclasses = Undefined
        /\ db[i]._custom_indirect_subclasses = Undefined
        /\ db[i]._custom_extends_chains = Undefined
        /\ db[i]._custom_direct_implemented = Undefined
        /\ db[i]._custom_indirect_implemented = Undefined
        /\ db[i]._custom_indirect_implements = Undefined
        /\ db[i]._custom_dependent_file_paths = Undefined

Longnames(db, idxs) == [k \in 1..Len(idxs) |-> db[idxs[k]].longname]

\* The positions 1..n that satisfy P, in order.
Positions(n, P(_)) == SelectSeq([k \in 1..n |-> k], P)

\* The classes whose immediate extends target is the doc at position p.
DirectSubclasses(db, p) ==
    Longnames(db, Positions(Len(db), LAMBDA i : IsClass(db[i]) /\ SuperOf(db, i) = p))

\* The classes that have the doc at position p as an ancestor two or more
\* steps up.
IndirectSubclasses(db, p) ==
    Longnames(db, Positions(Len(db),
        LAMBDA i : /\ IsClass(db[i])
                   /\ \E k \in 2..Len(Ancestors(db, i)) : Ancestors(db, i)[k] = p))

\* The ancestors of the doc at position i, root first.
AncestorChain(db, i) == Reverse(Longnames(db, Ancestors(db, i)))

---------------------------------------------------------------------------
\* C3: on a store whose extends references all resolve and form no cycle,
\* after the inheritance-chain pass every class P lists as direct subclasses
\* exactly the classes whose immediate extends target is P, as indirect
\* subclasses exactly the classes with P two or more steps up their chain,
\* and every class has its ancestors, root first, as its chain.
C3_ChainLists ==
    (pc = "necessary" /\ AcyclicResolved(docs)) =>
        \A p \in 1..Len(docs) :
            IsClass(docs[p]) =>
                /\ ListOrEmpty(docs[p]._custom_direct_subclasses) = DirectSubclasses(docs, p)
                /\ ListOrEmpty(docs[p]._custom_indirect_subclasses) = IndirectSubclasses(docs, p)
                /\ ListOrEmpty(docs[p]._custom_extends_chains) = AncestorChain(docs, p)

\* The same for the first resolve of a store, whose docs carry no list an
\* earlier resolve derived.
ChainListsOfFreshStore == Fresh(prevDocs) => C3_ChainLists

\* The chain C extends B extends A has been resolved: A.direct = [B],
\* A.indirect = [C], C.chain = [A, B].
C3_Witness ==
    /\ pc = "necessary" /\ Fresh(prevDocs) /\ AcyclicResolved(docs)
    /\ \E a, b, c \in 1..Len(docs) :
          /\ SuperOf(docs, c) = b /\ SuperOf(docs, b) = a /\ docs[a].extends = <<>>
          /\ docs[a]._custom_direct_subclasses = <<docs[b].longname>>
          /\ docs[a]._custom_indirect_subclasses = <<docs[c].longname>>
          /\ docs[c]._custom_extends_chains = <<docs[a].longname, docs[b].longname>>

---------------------------------------------------------------------------
\* C1: a second resolve, with the same configuration, of the store a first
\* resolve produced leaves the store as it was: the same docs with the same
\* value of every field.
C1_Idempotent == (pc = "done" /\ run >= 2) => docs = prevDocs

---------------------------------------------------------------------------
\* The doc at position i and its super class extend each other.
MutualPair(db, i) ==
    /\ IsClass(db[i])
    /\ SuperOf(db, i) \notin {0, i}
    /\ SuperOf(db, SuperOf(db, i)) = i

\* C4: for two classes that extend each other, the walk up the chain of each
\* of them comes to its end (the do-while loop of extendsChain is left), and
\* after the pass the ancestor chain of each of the two is the other class
\* alone: it does not contain the class itself.
C4_MutualExtends ==
    /\ [](\A i \in 1..Len(docs) :
            (MutualPair(docs, i) /\ docs[i]._custom_extends_chains # Undefined) =>
                ~Includes(docs[i]._custom_extends_chains, docs[i].longname))
    /\ [](pc = "necessary" =>
            \A i \in 1..Len(docs) :
                MutualPair(docs, i) =>
                    docs[i]._custom_extends_chains = <<docs[SuperOf(docs, i)].longname>>)
    /\ ((pc = "walk" /\ MutualPair(docs, classIdx)) ~> (pc = "lists"))

\* The pass has ended on a store with a mutual pair, each with the other as
\* its whole chain.
C4_Witness ==
    /\ pc = "necessary"
    /\ \E i, j \in 1..Len(docs) :
          /\ i # j /\ MutualPair(docs, i) /\ SuperOf(docs, i) = j
          /\ docs[i]._custom_extends_chains = <<docs[j].longname>>
          /\ docs[j]._custom_extends_chains = <<docs[i].longname>>

---------------------------------------------------------------------------
\* The names in the four lists _resolveNecessary reads.
DescendantNames(d) ==
    {ListOrEmpty(d._custom_direct_subclasses)[k] :
        k \in 1..Len(ListOrEmpty(d._custom_direct_subclasses))}
    \cup {ListOrEmpty(d._custom_indirect_subclasses)[k] :
        k \in 1..Len(ListOrEmpty(d._custom_indirect_subclasses))}
    \cup {ListOrEmpty(d._custom_direct_implemented)[k] :
        k \in 1..Len(ListOrEmpty(d._custom_direct_implemented))}
    \cup {ListOrEmpty(d._custom_indirect_implemented)[k] :
        k \in 1..Len(ListOrEmpty(d._custom_indirect_implemented))}

\* A doc named in one of the four lists of d is exported and not flagged.
HasExportedDescendant(db, d) ==
    \E c \in 1..Len(db) :
        db[c].longname \in DescendantNames(d) /\ db[c].export = "true" /\ ~db[c].ignore

\* The position in db of the doc with this ___id, 0 when it is gone.
ById(db, id) == First(db, LAMBDA d : d.___id = id)

\* C5: the export-necessity pass sets export to true on every doc whose
\* export is false and that names an exported, not flagged doc in its
\* direct/indirect subclass or implemented-by lists; on a store with an
\* acyclic, resolved extends relation that is every unexported ancestor, at
\* any distance, of an exported, not flagged class;
\* and a doc's export, once true, stays true while the doc is in the store.
C5_NecessaryExported ==
    [][/\ pc = "necessary" =>
            \A i \in 1..Len(docs) :
                (docs[i].export = "false" /\ HasExportedDescendant(docs, docs[i]))
                    => docs'[i].export = "true"
       /\ (pc = "necessary" /\ AcyclicResolved(docs)) =>
            \A b, d \in 1..Len(docs) :
                (/\ Includes(Ancestors(docs, d), b)
                 /\ docs[d].export = "true" /\ ~docs[d].ignore) => docs'[b].export = "true"
       /\ \A i \in 1..Len(docs) :
            (docs[i].export = "true" /\ ById(docs', docs[i].___id) # 0)
                => docs'[ById(docs', docs[i].___id)].export = "true"
      ]_vars

\* The pass has just promoted an unexported class two steps above an
\* exported class.
C5_Witness ==
    /\ pc = "access"
    /\ \E b, d \in 1..Len(docs) :
          /\ Len(Ancestors(docs, d)) >= 2 /\ Ancestors(docs, d)[2] = b
          /\ prevDocs[b].___id = docs[b].___id
          /\ prevDocs[b].export = "false" /\ docs[b].export = "true"
          /\ prevDocs[d].export = "true" /\ ~docs[d].ignore

---------------------------------------------------------------------------
\* The doc at position i of the store was unexported when this resolve began
\* and is exported now.
Promoted(i) ==
    /\ i <= Len(prevDocs)
    /\ prevDocs[i].___id = docs[i].___id
    /\ prevDocs[i].export = "false"
    /\ docs[i].export = "true"

\* C10: with the keep-non-exported option off the unexported-identifier pass
\* flags exactly the docs whose export is false when it runs (and changes
\* nothing else), so a doc the export-necessity pass promoted earlier in the
\* same resolve is not flagged by it; with the option on it changes nothing.
C10_UnexportFlags ==
    [][pc = "unexport" =>
         /\ Len(docs') = Len(docs)
         /\ \A i \in 1..Len(docs) :
              /\ docs'[i] = [docs[i] EXCEPT !.ignore =
                                @ \/ (~config.unexportIdentifier /\ docs[i].export = "false")]
              /\ Promoted(i) => docs'[i].ignore = docs[i].ignore
      ]_vars

\* The option is off, the pass has run: a promoted doc is not flagged, a doc
\* that stayed unexported is.
C10_Witness ==
    /\ pc = "undocument"
    /\ ~config.unexportIdentifier
    /\ \E i, j \in 1..Len(docs) :
          /\ Promoted(i) /\ ~docs[i].ignore
          /\ docs[j].export = "false" /\ docs[j].ignore /\ ~prevDocs[j].ignore

---------------------------------------------------------------------------
(* Docs of a class body that share a longname. *)

IsMethod(d) == d.kind = "ClassMethod" /\ d.qualifier \in {"get", "method", "set"}

\* The doc at position m is a member or property and the doc at position x a
\* method, getter or setter of the same longname.
MemberAndMethod(db, m, x) ==
    IsMemberKind(db[m]) /\ IsMethod(db[x]) /\ db[m].longname = db[x].longname

\* `scope` followed by a scope separator is the start of `longname`.
IsScopeOf(scope, longname) ==
    /\ Len(scope) < Len(longname)
    /\ IsPrefixOf(scope, longname)
    /\ longname[Len(scope) + 1] \in ScopeSeparators

\* A flagged doc of the store is an enclosing scope of `longname`.
UnderFlaggedScope(db, longname) ==
    \E f \in 1..Len(db) : db[f].ignore /\ IsScopeOf(db[f].longname, longname)

---------------------------------------------------------------------------
---------------------------------------------------------------------------
\* C7: the duplication pass, on the member and property docs of a longname
\* that no method, getter or setter has, flags every doc except the one with
\* the lowest id and leaves the flag of that one as it was, however many
\* they are and in whatever order the store holds them.
C7_LowestIdKept ==
    [][pc = "duplication" =>
         \A m \in 1..Len(docs) :
            (/\ IsMemberKind(docs[m])
             /\ ~\E x \in 1..Len(docs) : MemberAndMethod(docs, m, x))
                => docs'[m].ignore =
                      (docs[m].ignore
                          \/ \E o \in 1..Len(docs) :
                                /\ IsMemberKind(docs[o])
                                /\ docs[o].longname = docs[m].longname
                                /\ docs[o].___id < docs[m].___id)
      ]_vars

\* The pass has run on three member docs of one longname, held with the
\* lowest id last: that one is not flagged, the other two are.
C7_Witness ==
    /\ pc = "ignore"
    /\ \E a, b, c \in 1..Len(docs) :
          /\ b < c /\ c < a
          /\ IsMemberKind(docs[a]) /\ IsMemberKind(docs[b]) /\ IsMemberKind(docs[c])
          /\ docs[a].longname = docs[b].longname /\ docs[b].longname = docs[c].longname
          /\ docs[a].___id < docs[b].___id /\ docs[a].___id < docs[c].___id
          /\ ~prevDocs[b].ignore /\ ~prevDocs[c].ignore
          /\ ~docs[a].ignore /\ docs[b].ignore /\ docs[c].ignore

---------------------------------------------------------------------------
\* C8: after the ignore pass the store has no flagged doc and no doc whose
\* longname is the longname of a doc that was flagged, followed by '.', '~'
\* or '#' and a name.
C8_Cascade ==
    pc = "testRelation" =>
        /\ \A i \in 1..Len(docs) : ~docs[i].ignore
        /\ \A f \in 1..Len(prevDocs), i \in 1..Len(docs) :
              prevDocs[f].ignore => ~IsScopeOf(prevDocs[f].longname, docs[i].longname)

---------------------------------------------------------------------------
\* The access option as a set of levels.
AllowedLevels ==
    IF config.access = AccessUndefined THEN {"public", "protected", "private"}
    ELSE {config.access[k] : k \in 1..Len(config.access)}

\* C9: the access pass gives a doc without access 'public', or 'private'
\* when autoPrivate is on and its name starts with '_'; a doc with an access
\* keeps it; and the pass flags a doc exactly when the access it now has is
\* not one of the levels of the access option (by default public, protected
\* and private). Nothing else changes.
C9_AccessResolved ==
    [][pc = "access" =>
         /\ Len(docs') = Len(docs)
         /\ \A i \in 1..Len(docs) :
              LET resolved == IF docs[i].access # "null" THEN docs[i].access
                              ELSE IF config.autoPrivate /\ Head(docs[i].name) = "_"
                                   THEN "private" ELSE "public"
              IN  docs'[i] = [docs[i] EXCEPT !.access = resolved,
                                             !.ignore = @ \/ resolved \notin AllowedLevels]
      ]_vars

\* The pass has run with autoPrivate on and private not allowed: the doc
\* named _x without access is private and flagged, a doc without access
\* whose name has no '_' is public and not flagged.
C9_Witness ==
    /\ pc = "unexport"
    /\ config.autoPrivate
    /\ \E i, j \in 1..Len(docs) :
          /\ prevDocs[i].access = "null" /\ Head(docs[i].name) = "_"
          /\ docs[i].access = "private" /\ docs[i].ignore /\ ~prevDocs[i].ignore
          /\ prevDocs[j].access = "null" /\ docs[j].access = "public" /\ ~docs[j].ignore

---------------------------------------------------------------------------
(* Strings of the parsers: sequences of one-character strings, as above.   *)

\* undefined, for a property that holds a string when it is set.
Absent == <<"undefined">>

\* \s of a regular expression.
IsSpace(c) == c \in {" ", "\n", "\t"}

RECURSIVE TrimStart(_)
TrimStart(s) == IF s # <<>> /\ IsSpace(Head(s)) THEN TrimStart(Tail(s)) ELSE s

RECURSIVE TrimEnd(_)
TrimEnd(s) ==
    IF s # <<>> /\ IsSpace(s[Len(s)]) THEN TrimEnd(SubSeq(s, 1, Len(s) - 1)) ELSE s

\* String.prototype.trim
Trim(s) == TrimEnd(TrimStart(s))

Min(S) == CHOOSE x \in S : \A y \in S : x <= y

\* String.prototype.indexOf as a position from 1; 0 when c is not in s.
IndexOf(s, c) ==
    IF \E i \in 1..Len(s) : s[i] = c THEN Min({i \in 1..Len(s) : s[i] = c}) ELSE 0

\* String.prototype.split with a separator of one character.
RECURSIVE Split(_, _)
Split(s, sep) ==
    IF IndexOf(s, sep) = 0 THEN <<s>>
    ELSE <<SubSeq(s, 1, IndexOf(s, sep) - 1)>> \o Split(Drop(s, IndexOf(s, sep)), sep)

StartsWith(s, p) == IsPrefixOf(p, s)

---------------------------------------------------------------------------
(* AbstractParamParser.parseParamValue *)

\* options = { type, name, desc }
AllClauses == [type |-> TRUE, name |-> TRUE, desc |-> TRUE]

\* /^\{([^@]*?)\}(\s+|$)/ : the position of the '}' that ends the match, the
\* first one that whitespace or the end of the value follows, with no '@'
\* before it; 0 when the value does not match.
TypeClauseEnd(value) ==
    LET ends == {j \in 2..Len(value) :
                    /\ value[j] = "}"
                    /\ j = Len(value) \/ IsSpace(value[j + 1])
                    /\ \A k \in 2..(j - 1) : value[k] # "@"}
    IN  IF value # <<>> /\ value[1] = "{" /\ ends # {} THEN Min(ends) ELSE 0

\* The number of '[' less the number of ']' in the first n characters.
RECURSIVE BracketDepth(_, _)
BracketDepth(value, n) ==
    IF n = 0 THEN 0
    ELSE BracketDepth(value, n - 1)
         + (IF value[n] = "[" THEN 1 ELSE IF value[n] = "]" THEN -1 ELSE 0)

\* for (const c of value) { paramName += c; ... if (counter === 0) break; }
\* the length of paramName: up to the ']' that closes the first '[', or the
\* whole value when nothing closes it.
BracketNameLength(value) ==
    LET closes == {n \in 1..Len(value) : BracketDepth(value, n) = 0}
    IN  IF closes # {} THEN Min(closes) ELSE Len(value)

\* The length of the match of /^\S+/ ; 0 when there is none.
RECURSIVE NonSpaceLength(_)
NonSpaceLength(value) ==
    IF value = <<>> \/ IsSpace(Head(value)) THEN 0 ELSE 1 + NonSpaceLength(Tail(value))

\* match[1] of /^\-?\s*((:?.|\n)*)$/m
DescClause(value) ==
    TrimStart(IF value # <<>> /\ Head(value) = "-" THEN Tail(value) ELSE value)

\* parseParamValue(value, options): [threw, typeText, paramName, paramDesc]
parseParamValue(value, options) ==
    LET v0 == Trim(value)
        e == TypeClauseEnd(v0)
        typeText == IF ~options.type THEN Absent
                    ELSE IF e # 0 THEN SubSeq(v0, 2, e - 1) ELSE <<"*">>
        v1 == IF options.type /\ e # 0 THEN TrimStart(Drop(v0, e)) ELSE v0
        bracket == v1 # <<>> /\ Head(v1) = "["
        n == IF bracket THEN BracketNameLength(v1) ELSE NonSpaceLength(v1)
        paramName == IF ~options.name \/ n = 0 THEN Absent ELSE SubSeq(v1, 1, n)
        v2 == IF ~options.name \/ n = 0 THEN v1
              ELSE IF bracket THEN Trim(Drop(v1, n)) ELSE TrimStart(Drop(v1, n))
        paramDesc == IF options.desc THEN DescClause(v2) ELSE Absent
    IN  [threw |-> options.name /\ paramName = Absent,
         typeText |-> typeText, paramName |-> paramName, paramDesc |-> paramDesc]

---------------------------------------------------------------------------
(* AbstractParamParser.parseParamFromValue *)

Digits == {"0", "1", "2", "3", "4", "5", "6", "7", "8", "9"}

IsDigits(s) == s # <<>> /\ \A i \in 1..Len(s) : s[i] \in Digits

\* The number grammar of JSON, without exponents: -? int (. digits)?
IsJSONNumber(s) ==
    LET u == IF s # <<>> /\ Head(s) = "-" THEN Tail(s) ELSE s
        dot == IndexOf(u, ".")
        int == IF dot = 0 THEN u ELSE SubSeq(u, 1, dot - 1)
    IN  /\ IsDigits(int)
        /\ Len(int) > 1 => Head(int) # "0"
        /\ dot # 0 => IsDigits(Drop(u, dot))

\* A JSON string without escapes.
IsJSONString(s) ==
    /\ Len(s) >= 2
    /\ s[1] = "\"" /\ s[Len(s)] = "\""
    /\ \A i \in 2..(Len(s) - 1) : s[i] \notin {"\"", "\\", "\n", "\t"}

JSONLiterals == {<<"t", "r", "u", "e">>, <<"f", "a", "l", "s", "e">>, <<"n", "u", "l", "l">>}

\* JSON.parse of a scalar: [ok, value], a value being [type, text].
JSONScalar(s) ==
    LET t == Trim(s)
    IN  IF IsJSONNumber(t) THEN [ok |-> TRUE, value |-> [type |-> "number", text |-> t]]
        ELSE IF IsJSONString(t)
            THEN [ok |-> TRUE, value |-> [type |-> "string", text |-> SubSeq(t, 2, Len(t) - 1)]]
        ELSE IF t \in JSONLiterals
            THEN [ok |-> TRUE, value |-> [type |-> IF t = <<"n", "u", "l", "l">> THEN "null" ELSE "boolean",
                                          text |-> t]]
        ELSE [ok |-> FALSE, value |-> [type |-> "undefined", text |-> <<>>]]

\* JSON.parse: a scalar, or an array of scalars (no comma inside strings);
\* the text of an array is the text without whitespace around its elements.
RECURSIVE JoinComma(_)
JoinComma(parts) ==
    IF parts = <<>> THEN <<>>
    ELSE IF Len(parts) = 1 THEN Head(parts)
    ELSE Head(parts) \o <<",">> \o JoinComma(Tail(parts))

JSONParse(s) ==
    LET t == Trim(s)
        isArray == Len(t) >= 2 /\ t[1] = "[" /\ t[Len(t)] = "]"
        inner == SubSeq(t, 2, Len(t) - 1)
        parts == IF Trim(inner) = <<>> THEN <<>> ELSE Split(inner, ",")
    IN  IF ~isArray THEN JSONScalar(t)
        ELSE IF \A i \in 1..Len(parts) : JSONScalar(parts[i]).ok
            THEN [ok |-> TRUE,
                  value |-> [type |-> "array",
                             text |-> <<"[">> \o JoinComma([i \in 1..Len(parts) |-> Trim(parts[i])])
                                      \o <<"]">>]]
        ELSE [ok |-> FALSE, value |-> [type |-> "undefined", text |-> <<>>]]

NoRaw == [type |-> "undefined", text |-> <<>>]

\* typeText.match(/<.*?\|.*?>/)
UnionInGenerics(t) ==
    \E i, j, k \in 1..Len(t) :
        /\ i < j /\ j < k
        /\ t[i] = "<" /\ t[j] = "|" /\ t[k] = ">"
        /\ \A n \in i..k : t[n] # "\n"

\* typeText.match(/^\.\.\.\(.*?\)/)
UnionWithSpread(t) ==
    /\ StartsWith(t, <<".", ".", ".", "(">>)
    /\ \E k \in 5..Len(t) : t[k] = ")" /\ \A n \in 5..k : t[n] # "\n"

\* The parentheses of a union left in place.
KeepParens(t) == t

\* The brackets of an optional name left in place.
KeepBrackets(t) == t

\* typeText.replace(/^[(]/, '').replace(/[)]$/, '')
StripParens(t) ==
    LET u == IF t # <<>> /\ Head(t) = "(" THEN Tail(t) ELSE t
    IN  IF u # <<>> /\ u[Len(u)] = ")" THEN SubSeq(u, 1, Len(u) - 1) ELSE u

\* paramName.replace(/^[\[]/, '').replace(/[\]]$/, '')
StripBrackets(t) ==
    LET u == IF t # <<>> /\ Head(t) = "[" THEN Tail(t) ELSE t
    IN  IF u # <<>> /\ u[Len(u)] = "]" THEN SubSeq(u, 1, Len(u) - 1) ELSE u

\* result.types
TypesOf(typeText) ==
    LET t == IF typeText # <<>> /\ Head(typeText) \in {"?", "!"} THEN Tail(typeText) ELSE typeText
    IN  IF typeText = <<>> THEN << <<>> >>
        ELSE IF t # <<>> /\ Head(t) = "{" THEN <<t>>
        ELSE IF t # <<>> /\ Head(t) = "(" THEN Split(StripParens(t), "|")
        ELSE IF Includes(t, "|")
            THEN IF UnionInGenerics(t) \/ UnionWithSpread(t) THEN <<t>> ELSE Split(t, "|")
        ELSE <<t>>

\* result.spread, on the type text after the nullable mark and the
\* parentheses are taken off.
SpreadOf(typeText) ==
    LET t == IF Head(typeText) \in {"?", "!"} THEN Tail(typeText) ELSE typeText
        u == IF t # <<>> /\ Head(t) = "(" THEN StripParens(t) ELSE t
    IN  StartsWith(u, <<".", ".", ".">>)

\* parseParamFromValue(options): [threw, result]; a field the code does not
\* set is "absent" (Absent, NoRaw where it would hold a string or a value).
NoResult ==
    [nullable |-> "absent", types |-> <<>>, spread |-> "absent", optional |-> "absent",
     defaultValue |-> Absent, defaultRaw |-> NoRaw, name |-> Absent, description |-> Absent]

parseParamFromValue(options) ==
    LET typeText == options.typeText
        types == TypesOf(typeText)
        hasName == options.paramName # Absent /\ options.paramName # <<>>
        optional == hasName /\ Head(options.paramName) = "["
        paramName == IF optional THEN StripBrackets(options.paramName) ELSE options.paramName
        pair == Split(paramName, "=")
        parsed == JSONParse(pair[2])
    IN  IF typeText = Absent THEN [threw |-> TRUE, result |-> NoResult]
        ELSE IF \E i \in 1..Len(types) : types[i] = <<>> THEN [threw |-> TRUE, result |-> NoResult]
        ELSE [threw |-> FALSE,
              result |->
                [nullable |-> IF Head(typeText) = "?" THEN "true"
                              ELSE IF Head(typeText) = "!" THEN "false" ELSE "null",
                 types |-> types,
                 spread |-> IF SpreadOf(typeText) THEN "true" ELSE "false",
                 optional |-> IF ~hasName THEN "absent" ELSE IF optional THEN "true" ELSE "false",
                 defaultValue |-> IF hasName /\ Len(pair) = 2 THEN pair[2] ELSE Absent,
                 defaultRaw |-> IF hasName /\ Len(pair) = 2
                                THEN IF parsed.ok THEN parsed.value
                                     ELSE [type |-> "string", text |-> pair[2]]
                                ELSE NoRaw,
                 name |-> IF hasName THEN Trim(pair[1]) ELSE Absent,
                 description |-> options.paramDesc]]

\* The call of parseParamFromValue in parseParam: an exception of
\* parseParamValue leaves parseParam before it.
FromParsedValue(v) ==
    IF v.threw THEN [threw |-> TRUE, result |-> NoResult] ELSE parseParamFromValue(v)

\* parseParam(value, options)
parseParam(value, options) == FromParsedValue(parseParamValue(value, options))

---------------------------------------------------------------------------
(* Calls of parseParam.  call.values are the annotation texts handed to    *)
(* parseParam one after the other, call.src the clauses they were written  *)
(* from, call.mid the result of parseParamValue that parseParam passes to  *)
(* parseParamFromValue, call.results what each call returned or that it    *)
(* threw.                                                                  *)

MaxTypes == 3

TypeNumber == <<"n", "u", "m", "b", "e", "r">>
TypeString == <<"s", "t", "r", "i", "n", "g">>
TypeFoo == <<"F", "o", "o">>
PNAME == <<"p", "1">>
LitTrue == <<"t", "r", "u", "e">>
QUOTED == <<"\"", "a", "\"">>
DESC == <<"t", "h", "e", " ", "x", " ", "v", "a", "l", "u", "e">>
VALUE == <<"v", "a", "l", "u", "e">>

NoMid == [threw |-> FALSE, typeText |-> Absent, paramName |-> Absent, paramDesc |-> Absent]

SimpleTypes == {TypeNumber, TypeString, TypeFoo}

ParamNames == {<<"x">>, PNAME}

\* Default texts: literals, nested brackets, text that is no literal.
Defaults == {<<"5">>, <<"-", "1">>, LitTrue, QUOTED, <<"[", "1", ",", "2", "]">>, <<"a", "b", "c">>,
             <<"1", "2", "3">>, <<"[", "]">>}

Descriptions == {DESC, <<"x">>, <<>>}

RECURSIVE JoinBar(_)
JoinBar(ts) ==
    IF Len(ts) = 1 THEN Head(ts) ELSE Head(ts) \o <<"|">> \o JoinBar(Tail(ts))

\* '{T} [n=d] - text'
OptionalForm(t, n, d, text) ==
    <<"{">> \o t \o <<"}", " ", "[">> \o n \o <<"=">> \o d \o <<"]", " ", "-", " ">> \o text

\* '{t1|...|tn} value'
UnionForm(ts) == <<"{">> \o JoinBar(ts) \o <<"}", " ">> \o VALUE

\* '{(t1|...|tn)} value'
ParenForm(ts) == <<"{", "(">> \o JoinBar(ts) \o <<")", "}", " ">> \o VALUE

TypeLists == UNION {[1..n -> SimpleTypes] : n \in 1..MaxTypes}

ParamCalls ==
    {[at |-> "value", src |-> [form |-> "optional", types |-> <<t>>, name |-> n, default |-> d, text |-> x],
      values |-> <<OptionalForm(t, n, d, x)>>, options |-> AllClauses, i |-> 1,
      mid |-> NoMid, results |-> <<>>] :
        t \in SimpleTypes, n \in ParamNames, d \in Defaults, x \in Descriptions}
    \cup
    {[at |-> "value", src |-> [form |-> "union", types |-> ts, name |-> VALUE, default |-> Absent, text |-> <<>>],
      values |-> <<UnionForm(ts), ParenForm(ts)>>, options |-> AllClauses, i |-> 1,
      mid |-> NoMid, results |-> <<>>] : ts \in TypeLists}

resolverVars == <<docs, config, pc, run, classIdx, cur, chains, seenData, prevDocs>>

\* No resolver is running: the parsers and the docs do not use its state.
ResolverIdle ==
    /\ docs = <<>>
    /\ config = DefaultConfig
    /\ pc = "idle"
    /\ run = 0
    /\ classIdx = 0
    /\ cur = 0
    /\ chains = <<>>
    /\ seenData = {}
    /\ prevDocs = <<>>

InitParam == ResolverIdle /\ doc = NoDoc /\ call \in ParamCalls

Advance(c, r) ==
    [c EXCEPT !.results = Append(@, r), !.i = @ + 1, !.mid = NoMid,
              !.at = IF c.i = Len(c.values) THEN "done" ELSE "value"]

\* parseParam, first half: const ... = this.parseParamValue(value, options)
ParseParamValue ==
    /\ call.at = "value"
    /\ LET v == parseParamValue(call.values[call.i], call.options)
       IN  call' = IF v.threw THEN Advance(call, [threw |-> TRUE, result |-> NoResult])
                   ELSE [call EXCEPT !.at = "fromValue", !.mid = v]
    /\ UNCHANGED <<resolverVars, doc>>

\* parseParam, second half: return this.parseParamFromValue(...)
ParseParamFromValue ==
    /\ call.at = "fromValue"
    /\ call' = Advance(call, parseParamFromValue(call.mid))
    /\ UNCHANGED <<resolverVars, doc>>

NextParam == ParseParamValue \/ ParseParamFromValue

SpecParam == InitParam /\ [][NextParam]_vars

\* Default texts that contain '=': an arrow function, a comparison, a quoted
\* string, an array of quoted strings.
DefaultsWithEquals ==
    {<<"a", "=", ">", "a">>, <<"a", "=", "=", "b">>, <<"\"", "a", "=", "b", "\"">>,
     <<"[", "\"", "=", "\"", "]">>, <<"=">>}

\* Calls of parseParam with '{T} [n=d] - text' for every default text.
DefaultCalls ==
    {[at |-> "value", src |-> [form |-> "default", types |-> <<t>>, name |-> n, default |-> d, text |-> x],
      values |-> <<OptionalForm(t, n, d, x)>>, options |-> AllClauses, i |-> 1,
      mid |-> NoMid, results |-> <<>>] :
        t \in {TypeNumber, TypeString}, n \in ParamNames, d \in Defaults \cup DefaultsWithEquals,
        x \in {DESC, <<>>}}

InitDefault == ResolverIdle /\ doc = NoDoc /\ call \in DefaultCalls

SpecDefault == InitDefault /\ [][NextParam]_vars

\* Alternatives of a type text: a name, a generic type, a generic type with
\* a union in its brackets, a variadic name, a variadic group.
Alternatives ==
    {<<"a">>, <<"A", "<", "b", ">">>, <<"A", "<", "b", "|", "c", ">">>,
     <<".", ".", ".", "a">>, <<".", ".", ".", "(", "a", "|", "b", ")">>}

\* Calls of parseParam with '{t1|...|tn} value' for every list of
\* 1..MaxTypes alternatives.
GenericCalls ==
    {[at |-> "value", src |-> [form |-> "generic", types |-> ts, name |-> VALUE, default |-> Absent, text |-> <<>>],
      values |-> <<UnionForm(ts)>>, options |-> AllClauses, i |-> 1,
      mid |-> NoMid, results |-> <<>>] : ts \in UNION {[1..n -> Alternatives] : n \in 1..MaxTypes}}

InitGeneric == ResolverIdle /\ doc = NoDoc /\ call \in GenericCalls

SpecGeneric == InitGeneric /\ [][NextParam]_vars

---------------------------------------------------------------------------
(* AbstractCommentParser.parse.  Lines are separated by "\n" alone once    *)
(* "\r\n" is replaced; the comments handed to parse hold no other line     *)
(* terminator.                                                             *)

\* [\t ]
IsBlank(c) == c \in {" ", "\t"}

\* \w
WordChars == Digits \cup {"a", "b", "c", "d", "e", "f", "g", "h", "i", "j", "k", "l", "m", "n", "o", "p", "q", "r", "s", "t", "u", "v", "w", "x", "y", "z", "A", "B", "C", "D", "E", "F", "G", "H", "I", "J", "K", "L", "M", "N", "O", "P", "Q", "R", "S", "T", "U", "V", "W", "X", "Y", "Z", "_"}

RECURSIVE StripBlanks(_)
StripBlanks(s) == IF s # <<>> /\ IsBlank(Head(s)) THEN StripBlanks(Tail(s)) ELSE s

\* The position of the first occurrence of p in s, 0 when there is none.
FindSub(s, p) ==
    LET at == {i \in 1..(Len(s) - Len(p) + 1) : SubSeq(s, i, i + Len(p) - 1) = p}
    IN  IF at = {} THEN 0 ELSE Min(at)

\* String.prototype.split with a separator of several characters.
RECURSIVE SplitOn(_, _)
SplitOn(s, p) ==
    IF FindSub(s, p) = 0 THEN <<s>>
    ELSE <<SubSeq(s, 1, FindSub(s, p) - 1)>> \o SplitOn(Drop(s, FindSub(s, p) + Len(p) - 1), p)

RECURSIVE JoinLines(_)
JoinLines(ls) ==
    IF Len(ls) = 1 THEN Head(ls) ELSE Head(ls) \o <<"\n">> \o JoinLines(Tail(ls))

\* A replace with the flags gm whose pattern starts with ^ and does not
\* match "\n": the replacement of every line.
EachLine(s, Op(_)) == JoinLines([i \in 1..Len(Split(s, "\n")) |-> Op(Split(s, "\n")[i])])

\* comment.replace(/\r\n/gm, '\n')
RECURSIVE ReplaceCRLF(_)
ReplaceCRLF(s) ==
    IF s = <<>> THEN <<>>
    ELSE IF Len(s) >= 2 /\ s[1] = "\r" /\ s[2] = "\n" THEN <<"\n">> \o ReplaceCRLF(Drop(s, 2))
    ELSE <<Head(s)>> \o ReplaceCRLF(Tail(s))

\* /^\*[\t ]?/ at the start of a line or of the comment
StripStar(s) ==
    IF s # <<>> /\ Head(s) = "*"
    THEN IF Len(s) >= 2 /\ IsBlank(s[2]) THEN Drop(s, 2) ELSE Tail(s)
    ELSE s

\* comment.replace(/[\t ]$/, '')
StripLastBlank(s) ==
    IF s # <<>> /\ IsBlank(s[Len(s)]) THEN SubSeq(s, 1, Len(s) - 1) ELSE s

\* comment.replace(/[\t ]*$/, '')
RECURSIVE StripTailBlanks(_)
StripTailBlanks(s) ==
    IF s # <<>> /\ IsBlank(s[Len(s)]) THEN StripTailBlanks(SubSeq(s, 1, Len(s) - 1)) ELSE s

\* The length of the match of @\w+ at the start of s, 0 when there is none.
RECURSIVE WordLength(_)
WordLength(s) == IF s # <<>> /\ Head(s) \in WordChars THEN 1 + WordLength(Tail(s)) ELSE 0

TagLength(s) ==
    IF s # <<>> /\ Head(s) = "@" /\ WordLength(Tail(s)) > 0 THEN 1 + WordLength(Tail(s)) ELSE 0

SentinelText == <<"\\", "T", "R", "U", "E">>

Separator == <<"\\", "Z">>

\* A line left as it is.
NoSentinel(line) == line

\* /^[\t ]*(@\w+)$/gm -> '$1 \\TRUE', on one line
InsertSentinel(line) ==
    LET l == StripBlanks(line)
    IN  IF TagLength(l) > 0 /\ TagLength(l) = Len(l) THEN l \o <<" ">> \o SentinelText ELSE line

\* /^[\t ]*(@\w+)[\t ](.*)/gm -> '\\Z$1\\Z$2', on one line
InsertSeparator(line) ==
    LET l == StripBlanks(line)
        n == TagLength(l)
    IN  IF n > 0 /\ n < Len(l) /\ IsBlank(l[n + 1])
        THEN Separator \o SubSeq(l, 1, n) \o Separator \o Drop(l, n + 1)
        ELSE line

\* The comment without the blanks and the '*' at the head of its lines:
\* lines 48 to 56.
Stripped(comment) ==
    LET c1 == ReplaceCRLF(comment)
        c2 == EachLine(c1, StripBlanks)
        c3 == StripStar(c2)
        c4 == StripLastBlank(c3)
    IN  EachLine(c4, StripStar)

\* The comment as it is split: lines 48 to 64.
Normalized(comment) ==
    LET c5 == Stripped(comment)
        c6 == IF c5 # <<>> /\ Head(c5) = "@" THEN c5 ELSE <<"@", "d", "e", "s", "c", " ">> \o c5
        c7 == StripTailBlanks(c6)
        c8 == EachLine(c7, InsertSentinel)
    IN  EachLine(c8, InsertSeparator)

RECURSIVE StripTailNewlines(_)
StripTailNewlines(s) ==
    IF s # <<>> /\ s[Len(s)] = "\n" THEN StripTailNewlines(SubSeq(s, 1, Len(s) - 1)) ELSE s

\* tagValue.replace('\\TRUE', '').replace(/^\n/, '').replace(/\n*$/, '')
TagValue(v) ==
    LET i == FindSub(v, SentinelText)
        v1 == IF i = 0 THEN v ELSE SubSeq(v, 1, i - 1) \o Drop(v, i + Len(SentinelText) - 1)
        v2 == IF v1 # <<>> /\ Head(v1) = "\n" THEN Tail(v1) ELSE v1
    IN  StripTailNewlines(v2)

IsTagLine(line) == line # <<>> /\ Head(line) = "@"

\* for (let i = 0; i < lines.length; i++) { ... }: [threw, tags];
\* lines[i + 1].charAt throws when lines[i] is the last one.
RECURSIVE TagLoop(_, _, _)
TagLoop(lines, i, tags) ==
    IF i > Len(lines) THEN [threw |-> FALSE, tags |-> tags]
    ELSE IF ~IsTagLine(lines[i]) THEN TagLoop(lines, i + 1, tags)
    ELSE IF i = Len(lines) THEN [threw |-> TRUE, tags |-> tags]
    ELSE IF IsTagLine(lines[i + 1])
        THEN TagLoop(lines, i + 1, Append(tags, [tagName |-> lines[i], tagValue |-> TagValue(<<>>)]))
    ELSE TagLoop(lines, i + 2, Append(tags, [tagName |-> lines[i], tagValue |-> TagValue(lines[i + 1])]))

---------------------------------------------------------------------------
(* Calls of AbstractCommentParser.parse.  call.comment is what             *)
(* getCommentValue returns for the node, Absent when the node is no        *)
(* comment.                                                                *)

MaxComment == 4

CommentChars == {"@", "a", " ", "\n", "*"}

Interface == <<"@", "i", "n", "t", "e", "r", "f", "a", "c", "e">>
Abstract == <<"@", "a", "b", "s", "t", "r", "a", "c", "t">>

\* Comments of the two bare tags @interface and @abstract, one on a line.
BareTagComments ==
    {Interface \o <<"\n">> \o Abstract,
     <<"*", " ">> \o Interface \o <<"\n", " ", "*", " ">> \o Abstract,
     Interface \o <<"\r", "\n">> \o Abstract,
     Interface \o <<"\n">> \o Abstract \o <<"\n">>,
     <<" ">> \o Interface \o <<" ", "\n", "\t">> \o Abstract \o <<" ">>}

Comments ==
    {Absent} \cup BareTagComments \cup UNION {[1..n -> CommentChars] : n \in 0..MaxComment}

CommentCalls ==
    {[at |-> "parse", comment |-> c, lines |-> <<>>, result |-> [threw |-> FALSE, tags |-> <<>>]] :
        c \in Comments}

InitComment == ResolverIdle /\ doc = NoDoc /\ call \in CommentCalls

\* parse, lines 43 to 66: the comment value, its normalisation, the split.
CommentLines ==
    /\ call.at = "parse"
    /\ call' = IF call.comment = Absent THEN [call EXCEPT !.at = "done"]
               ELSE [call EXCEPT !.at = "lines",
                                 !.lines = SplitOn(Normalized(call.comment), Separator)]
    /\ UNCHANGED <<resolverVars, doc>>

\* parse, lines 68 to 95: the loop over the lines.
CommentTags ==
    /\ call.at = "lines"
    /\ call' = [call EXCEPT !.at = "done", !.result = TagLoop(call.lines, 1, <<>>)]
    /\ UNCHANGED <<resolverVars, doc>>

NextComment == CommentLines \/ CommentTags

SpecComment == InitComment /\ [][NextComment]_vars

---------------------------------------------------------------------------
(* DocBase.create: the methods named _$<attribute> of a doc class are run   *)
(* by _ensureApplied and _apply; a method that is running is a frame of     *)
(* doc.stack.  The doc class is ModuleAssignmentDocBase with a child class  *)
(* that declares _$name and may declare _$qualifier and _$static.           *)

\* The _$ methods of the model's doc classes.
Methods ==
    {"_$kind", "_$qualifier", "_$name", "_$memberof", "_$static", "_$longname",
     "_$importStyle", "_$desc", "_$param", "_$property", "_$return", "_$undocument"}

\* Methods a child class has to declare.
ChildMethods == {"_$qualifier", "_$static"}

\* this._ensureApplied('_$kind'); ...('_$qualifier'); ...('_$name') of create().
BootstrapMethods == <<"_$kind", "_$qualifier", "_$name">>

\* The _ensureApplied calls at the start of a method's body, in order.
Demands(m) ==
    CASE m = "_$longname" -> <<"_$memberof", "_$name", "_$static">>
      [] m = "_$importStyle" -> <<"_$name">>
      [] OTHER -> <<>>

\* s_GET_DYNAMIC_INVOKE_METHODS: own property names, the child class first,
\* then each class up the prototype chain.
DeclarationOrder ==
    <<"_$name", "_$qualifier", "_$static", "_$kind", "_$memberof", "_$importStyle",
      "_$desc", "_$longname", "_$param", "_$property", "_$return", "_$undocument">>

\* dynamicMethods.sort()
AlphabeticalOrder ==
    <<"_$desc", "_$importStyle", "_$kind", "_$longname", "_$memberof", "_$name", "_$param",
      "_$property", "_$qualifier", "_$return", "_$static", "_$undocument">>

Orders == {DeclarationOrder, AlphabeticalOrder, Reverse(DeclarationOrder)}

\* target[prop] instanceof Function
RECURSIVE Declared(_, _)
Declared(order, declared) ==
    IF order = <<>> THEN <<>>
    ELSE (IF Head(order) \in declared THEN <<Head(order)>> ELSE <<>>)
         \o Declared(Tail(order), declared)

\* Never finds a method applied.
NeverApplied(d, m) == FALSE

\* if (!this._appliedMethods[methodName])
IsApplied(d, m) == m \in d._appliedMethods

\* this[methodName](): the body of the method starts.
Invoke(d, m) ==
    [d EXCEPT !.stack = Append(@, [method |-> m, k |-> 1]),
              !.executed[m] = @ + 1]

\* An exception leaves create.
Throw(d, m) == [d EXCEPT !.at = "error", !.stack = <<>>, !.failedIn = m]

\* _ensureApplied(methodName), up to the call of the method; a name that is
\* not a method of the class is marked applied, or is a TypeError when
\* config.debug is set.
EnsureApplied(d, m) ==
    IF IsApplied(d, m) THEN d
    ELSE IF m \in d.declared THEN Invoke(d, m)
    ELSE IF d.debug THEN Throw(d, m)
    ELSE [d EXCEPT !._appliedMethods = @ \cup {m}]

\* Tag names.
TagParam == <<"@", "p", "a", "r", "a", "m">>
TagProperty == <<"@", "p", "r", "o", "p", "e", "r", "t", "y">>
TagReturn == <<"@", "r", "e", "t", "u", "r", "n">>
TagReturns == <<"@", "r", "e", "t", "u", "r", "n", "s">>
TagDesc == <<"@", "d", "e", "s", "c">>
TagUndocument == <<"@", "_", "u", "n", "d", "o", "c", "u", "m", "e", "n", "t">>
TagFoo == <<"@", "f", "o", "o">>
TagType == <<"@", "t", "y", "p", "e">>
TagTypedef == <<"@", "t", "y", "p", "e", "d", "e", "f">>

\* _findAllTagValues(names): the values of the tags with one of the names,
\* in order; <<>> stands for null as well, no caller tells them apart.
RECURSIVE _findAllTagValues(_, _)
_findAllTagValues(tags, names) ==
    IF tags = <<>> THEN <<>>
    ELSE (IF Head(tags).tagName \in names THEN <<Head(tags).tagValue>> ELSE <<>>)
         \o _findAllTagValues(Tail(tags), names)

\* _find(names) finds a tag.
Finds(tags, names) == \E i \in 1..Len(tags) : tags[i].tagName \in names

\* _findTagValue(names): the value of the last tag with one of the names.
_findTagValue(tags, names) ==
    LET values == _findAllTagValues(tags, names) IN values[Len(values)]

\* The tag names a method looks for.
RuleTagNames(m) ==
    CASE m = "_$desc" -> {TagDesc}
      [] m = "_$param" -> {TagParam}
      [] m = "_$property" -> {TagProperty}
      [] m = "_$return" -> {TagReturn, TagReturns}
      [] m = "_$undocument" -> {TagUndocument}
      [] m = "_$type" -> {TagType}
      [] m = "_$typedef" -> {TagTypedef}
      [] OTHER -> {}

\* What one turn of the loop of _$param does with the clauses of a value:
\* "threw" when parseParamFromValue throws, else "param" and the result.
ParamOfClauses(parsed) ==
    [does |-> IF parsed.threw THEN "threw" ELSE "param", param |-> parsed.result]

\* if (!result.typeText || !result.paramName) { ...; continue; }
ParamTurnOfClauses(result) ==
    IF result.threw THEN [does |-> "threw", param |-> NoResult]
    ELSE IF result.typeText = <<>> \/ result.paramName = <<>>
        THEN [does |-> "invalid", param |-> NoResult]
    ELSE ParamOfClauses(parseParamFromValue(result))

\* One turn of the loop of _$param.
ParamTurn(value) == ParamTurnOfClauses(parseParamValue(value, AllClauses))

\* The loop of _$param from turn i on: [threw, params, invalid].
RECURSIVE ParamLoop(_, _, _, _, _)
ParamLoop(values, turns, i, params, invalid) ==
    IF i > Len(values) THEN [threw |-> FALSE, params |-> params, invalid |-> invalid]
    ELSE IF turns[i].does = "threw" THEN [threw |-> TRUE, params |-> params, invalid |-> invalid]
    ELSE IF turns[i].does = "invalid"
        THEN ParamLoop(values, turns, i + 1, params, Append(invalid, values[i]))
    ELSE ParamLoop(values, turns, i + 1, Append(params, turns[i].param), invalid)

\* The loop of _$property from turn i on: [threw, properties].
RECURSIVE PropertyLoop(_, _, _)
PropertyLoop(turns, i, properties) ==
    IF i > Len(turns) THEN [threw |-> FALSE, properties |-> properties]
    ELSE IF turns[i].threw THEN [threw |-> TRUE, properties |-> properties]
    ELSE PropertyLoop(turns, i + 1, Append(properties, turns[i].result))

\* { type: true, name: false, desc: true }
ReturnClauses == [type |-> TRUE, name |-> FALSE, desc |-> TRUE]

\* this._value.params = []; the loop; an exception leaves the method.
ParamsSet(d, loop) ==
    IF loop.threw
    THEN Throw([d EXCEPT !._value.has = @ \cup {"params"}, !._value.params = loop.params,
                         !.invalid = loop.invalid], "_$param")
    ELSE [d EXCEPT !._value.has = @ \cup {"params"}, !._value.params = loop.params,
                   !.invalid = loop.invalid]

\* if (!values) { return; }
ParamOfValues(d, values) ==
    IF values = <<>> THEN d
    ELSE ParamsSet(d, ParamLoop(values, [i \in 1..Len(values) |-> ParamTurn(values[i])],
                                1, <<>>, d.invalid))

\* _$param
ParamBody(d) == ParamOfValues(d, _findAllTagValues(d._commentTags, RuleTagNames("_$param")))

\* this._value.properties = []; the loop; an exception leaves the method.
PropertiesSet(d, loop) ==
    IF loop.threw
    THEN Throw([d EXCEPT !._value.has = @ \cup {"properties"},
                         !._value.properties = loop.properties], "_$property")
    ELSE [d EXCEPT !._value.has = @ \cup {"properties"}, !._value.properties = loop.properties]

\* if (!values) { return; }
PropertyOfValues(d, values) ==
    IF values = <<>> THEN d
    ELSE PropertiesSet(d, PropertyLoop([i \in 1..Len(values) |-> parseParam(values[i], AllClauses)],
                                       1, <<>>))

\* _$property
PropertyBody(d) ==
    PropertyOfValues(d, _findAllTagValues(d._commentTags, RuleTagNames("_$property")))

\* this._value.return = parseParam(value, ...); an exception leaves the method.
ReturnSet(d, parsed) ==
    IF parsed.threw THEN Throw(d, "_$return")
    ELSE [d EXCEPT !._value.has = @ \cup {"return"}, !._value.return = parsed.result]

\* if (!value) { return; }
ReturnOfValue(d, value) ==
    IF value = <<>> THEN d ELSE ReturnSet(d, parseParam(value, ReturnClauses))

\* _$return
ReturnBody(d) ==
    IF ~Finds(d._commentTags, RuleTagNames("_$return")) THEN d
    ELSE ReturnOfValue(d, _findTagValue(d._commentTags, RuleTagNames("_$return")))

\* { type: true, name: false, desc: false }
TypeClauses == [type |-> TRUE, name |-> FALSE, desc |-> FALSE]

\* { type: true, name: true, desc: false }
TypedefClauses == [type |-> TRUE, name |-> TRUE, desc |-> FALSE]

\* this._value.type = parseParam(value, ...); an exception leaves the method.
TypeSet(d, parsed, m) ==
    IF parsed.threw THEN Throw(d, m)
    ELSE [d EXCEPT !._value.has = @ \cup {"type"}, !._value.type = parsed.result]

\* if (!value) { return; }
TypeOfValue(d, value) ==
    IF value = <<>> THEN d ELSE TypeSet(d, parseParam(value, TypeClauses), "_$type")

\* _$type
TypeBody(d) ==
    IF ~Finds(d._commentTags, RuleTagNames("_$type")) THEN d
    ELSE TypeOfValue(d, _findTagValue(d._commentTags, RuleTagNames("_$type")))

\* Reflect.deleteProperty(result, 'description'), of 'nullable', of 'spread'
DeleteProperties(parsed) ==
    [parsed EXCEPT !.result.description = Absent, !.result.nullable = "absent",
                   !.result.spread = "absent"]

\* if (!value) { return; }
TypedefOfValue(d, value) ==
    IF value = <<>> THEN d
    ELSE TypeSet(d, DeleteProperties(parseParam(value, TypedefClauses)), "_$typedef")

\* _$typedef of VirtualTypedefDocBase
TypedefBody(d) ==
    IF ~Finds(d._commentTags, RuleTagNames("_$typedef")) THEN d
    ELSE TypedefOfValue(d, _findTagValue(d._commentTags, RuleTagNames("_$typedef")))

\* _$undocument
UndocumentBody(d) ==
    IF Finds(d._commentTags, RuleTagNames("_$undocument")) THEN [d EXCEPT !._value.has = @ \cup {"undocument"}]
    ELSE d

\* _$desc
DescBody(d) ==
    [d EXCEPT !._value.has = @ \cup {"description"},
              !._value.description = IF Finds(d._commentTags, RuleTagNames("_$desc"))
                                     THEN _findTagValue(d._commentTags, RuleTagNames("_$desc"))
                                     ELSE NoString]

\* _$longname: the longname is written from memberof, name and static as
\* they are when the body runs.
LongnameBody(d) ==
    [d EXCEPT !._value.has = @ \cup {"longname"},
              !._value.longnameOf = {"memberof", "name", "static"} \cap d._value.has]

\* The body of a method after its _ensureApplied calls.
Body(d, m) ==
    CASE m = "_$param" -> ParamBody(d)
      [] m = "_$property" -> PropertyBody(d)
      [] m = "_$return" -> ReturnBody(d)
      [] m = "_$undocument" -> UndocumentBody(d)
      [] m = "_$desc" -> DescBody(d)
      [] m = "_$longname" -> LongnameBody(d)
      [] m = "_$kind" -> [d EXCEPT !._value.has = @ \cup {"kind"}]
      [] m = "_$qualifier" -> [d EXCEPT !._value.has = @ \cup {"qualifier"}]
      [] m = "_$name" -> [d EXCEPT !._value.has = @ \cup {"name"}]
      [] m = "_$memberof" -> [d EXCEPT !._value.has = @ \cup {"memberof"}]
      [] m = "_$static" -> [d EXCEPT !._value.has = @ \cup {"static"}]
      [] m = "_$importStyle" -> [d EXCEPT !._value.has = @ \cup {"importStyle"}]
      [] m = "_$category" -> [d EXCEPT !._value.has = @ \cup {"category"}]
      [] m = "_$type" -> TypeBody(d)
      [] m = "_$typedef" -> TypedefBody(d)

\* tag.tagName.replace(/^[@]/, '_tag_')
TagMethodName(tagName) ==
    IF tagName # <<>> /\ Head(tagName) = "@" THEN <<"_", "t", "a", "g", "_">> \o Tail(tagName)
    ELSE tagName

\* The _tag_ methods that DocBase declares for the tags above: _tag_desc,
\* _tag_param, _tag_property, _tag_return, _tag_returns.
DocBaseTagMethods ==
    {TagMethodName(TagParam), TagMethodName(TagProperty), TagMethodName(TagReturn),
     TagMethodName(TagReturns), TagMethodName(TagDesc)}

\* _processCommentTags
RECURSIVE KnownTags(_, _)
KnownTags(tags, tagMethods) ==
    IF tags = <<>> THEN <<>>
    ELSE (IF TagMethodName(Head(tags).tagName) \in tagMethods THEN <<Head(tags)>> ELSE <<>>)
         \o KnownTags(Tail(tags), tagMethods)

RECURSIVE UnknownTags(_, _)
UnknownTags(tags, tagMethods) ==
    IF tags = <<>> THEN <<>>
    ELSE (IF TagMethodName(Head(tags).tagName) \notin tagMethods THEN <<Head(tags)>> ELSE <<>>)
         \o UnknownTags(Tail(tags), tagMethods)

---------------------------------------------------------------------------
(* The steps of DocBase.create *)

Range(f) == {f[i] : i \in DOMAIN f}

Top(d) == d.stack[Len(d.stack)]

Pop(d) == [d EXCEPT !.stack = SubSeq(@, 1, Len(@) - 1)]

\* create, lines 134 to 136: the next of the three _ensureApplied calls.
Bootstrap ==
    /\ doc.at = "bootstrap"
    /\ doc.stack = <<>>
    /\ doc.boot <= Len(BootstrapMethods)
    /\ doc' = EnsureApplied([doc EXCEPT !.boot = @ + 1], BootstrapMethods[doc.boot])
    /\ UNCHANGED <<resolverVars, call>>

\* create, lines 138 to 143, and the start of _apply.
StartApply ==
    /\ doc.at = "bootstrap"
    /\ doc.stack = <<>>
    /\ doc.boot > Len(BootstrapMethods)
    /\ doc' = [doc EXCEPT !.at = "apply", !.i = 1, !._value.has = @ \cup {"filePath", "static"}]
    /\ UNCHANGED <<resolverVars, call>>

\* The running method calls its next _ensureApplied.
RuleDemand ==
    /\ doc.at \in {"bootstrap", "apply"}
    /\ doc.stack # <<>>
    /\ Top(doc).k <= Len(Demands(Top(doc).method))
    /\ doc' = EnsureApplied([doc EXCEPT !.stack[Len(doc.stack)].k = @ + 1],
                            Demands(Top(doc).method)[Top(doc).k])
    /\ UNCHANGED <<resolverVars, call>>

\* this._appliedMethods[methodName] = true, which an exception skips.
Returned(d, m) == IF d.at = "error" THEN d ELSE [d EXCEPT !._appliedMethods = @ \cup {m}]

\* The running method does the rest of its body and returns to _ensureApplied
\* or _apply, which marks it applied.
RuleReturn ==
    /\ doc.at \in {"bootstrap", "apply"}
    /\ doc.stack # <<>>
    /\ Top(doc).k > Len(Demands(Top(doc).method))
    /\ doc' = Returned(Body(Pop(doc), Top(doc).method), Top(doc).method)
    /\ UNCHANGED <<resolverVars, call>>

\* _apply: the next method of the enumeration.
ApplyNext ==
    /\ doc.at = "apply"
    /\ doc.stack = <<>>
    /\ doc.i <= Len(doc.order)
    /\ doc' = IF IsApplied(doc, doc.order[doc.i]) THEN [doc EXCEPT !.i = @ + 1]
              ELSE Invoke([doc EXCEPT !.i = @ + 1], doc.order[doc.i])
    /\ UNCHANGED <<resolverVars, call>>

\* _processCommentTags and the return of create.
ProcessCommentTags ==
    /\ doc.at = "apply"
    /\ doc.stack = <<>>
    /\ doc.i > Len(doc.order)
    /\ doc' = [doc EXCEPT !.at = "created",
                          !._value.tagsKnown = KnownTags(doc._commentTags, doc.tagMethods),
                          !._value.tagsUnknown = UnknownTags(doc._commentTags, doc.tagMethods)]
    /\ UNCHANGED <<resolverVars, call>>

NextDoc ==
    \/ Bootstrap
    \/ StartApply
    \/ RuleDemand
    \/ RuleReturn
    \/ ApplyNext
    \/ ProcessCommentTags

---------------------------------------------------------------------------
(* Docs at the call of create *)

MaxTags == 2

GoodValue == <<"{", "n", "u", "m", "b", "e", "r", "}", " ", "x">>
EmptyType == <<"{", "}", " ", "x">>
EmptyAlternative == <<"{", "n", "u", "m", "b", "e", "r", "|", "}", " ", "x">>
NoName == <<"{", "n", "u", "m", "b", "e", "r", "}">>

Tag(name, value) == [tagName |-> name, tagValue |-> value]

DocTags ==
    {Tag(TagParam, v) : v \in {GoodValue, EmptyType, EmptyAlternative, NoName}}
    \cup {Tag(TagProperty, v) : v \in {GoodValue, NoName}}
    \cup {Tag(TagReturn, v) : v \in {GoodValue, EmptyType}}
    \cup {Tag(TagDesc, <<"d">>), Tag(TagUndocument, <<>>), Tag(TagFoo, <<>>)}

TagLists == UNION {[1..n -> DocTags] : n \in 0..MaxTags}

\* this._appliedMethods = {}; this._value = {}
NewDoc(tags, order, declared, debug, tagMethods) ==
    [at |-> "bootstrap", boot |-> 1, declared |-> declared, order |-> Declared(order, declared),
     debug |-> debug, tagMethods |-> tagMethods, _commentTags |-> tags,
     _appliedMethods |-> {}, stack |-> <<>>, executed |-> [m \in Methods \cup declared |-> 0], i |-> 0,
     _value |-> [has |-> {}, description |-> NoString, params |-> <<>>, properties |-> <<>>, return |-> NoResult,
                 type |-> NoResult,
                 longnameOf |-> {}, tagsKnown |-> <<>>, tagsUnknown |-> <<>>],
     invalid |-> <<>>, failedIn |-> ""]

\* Docs of the classes a child may derive, for each order of enumeration.
InitRules ==
    /\ ResolverIdle
    /\ call = NoCall
    /\ \E tags \in {<<>>, <<Tag(TagParam, GoodValue)>>, <<Tag(TagFoo, <<>>), Tag(TagUndocument, <<>>)>>},
          order \in Orders, child \in SUBSET ChildMethods, debug \in BOOLEAN :
            doc = NewDoc(tags, order, (Methods \ ChildMethods) \cup child, debug, DocBaseTagMethods)

SpecRules == InitRules /\ [][NextDoc]_vars

\* Docs of every list of tags.
InitTags ==
    /\ ResolverIdle
    /\ call = NoCall
    /\ \E tags \in TagLists :
            doc = NewDoc(tags, DeclarationOrder, Methods, FALSE, DocBaseTagMethods)

SpecTags == InitTags /\ [][NextDoc]_vars

\* The _$ methods of a child class of VirtualTypedefDocBase, which declares
\* _$memberof: its own, those of VirtualTypedefDocBase, those of DocBase.
TypedefOrder ==
    <<"_$memberof", "_$category", "_$kind", "_$name", "_$typedef",
      "_$desc", "_$longname", "_$param", "_$property", "_$return", "_$type", "_$undocument">>

\* dynamicMethods.sort()
TypedefAlphabetical ==
    <<"_$category", "_$desc", "_$kind", "_$longname", "_$memberof", "_$name", "_$param",
      "_$property", "_$return", "_$type", "_$typedef", "_$undocument">>

TypedefOrders == {TypedefOrder, TypedefAlphabetical, Reverse(TypedefOrder)}

\* static _tag_typedef() {} of VirtualTypedefDocBase, static _tag_type() {} of DocBase
TypedefTagMethods == DocBaseTagMethods \cup {TagMethodName(TagTypedef), TagMethodName(TagType)}

TypedefValue == <<"{", "n", "u", "m", "b", "e", "r", "}", " ", "T">>
TypeValue == <<"{", "?", "s", "t", "r", "i", "n", "g", "}">>

TypedefTags ==
    {Tag(TagTypedef, TypedefValue), Tag(TagType, TypeValue), Tag(TagDesc, <<"d">>),
     Tag(TagParam, GoodValue)}

\* Docs of a virtual typedef comment, for each order of enumeration.
InitTypedef ==
    /\ ResolverIdle
    /\ call = NoCall
    /\ \E tags \in UNION {[1..n -> TypedefTags] : n \in 0..MaxTags}, order \in TypedefOrders :
            doc = NewDoc(tags, order, Range(TypedefOrder), FALSE, TypedefTagMethods)

SpecTypedef == InitTypedef /\ [][NextDoc]_vars

---------------------------------------------------------------------------
(* Claims about parseParam *)

\* The value the spec calls the literal value of a default text, or the text
\* itself when it is no literal.
LiteralOr(d) == IF JSONParse(d).ok THEN JSONParse(d).value ELSE [type |-> "string", text |-> d]

Example == OptionalForm(TypeNumber, <<"x">>, <<"5">>, DESC)

C15_ParenSameAsUnion ==
    (call.at = "done" /\ call.src.form = "union") =>
        /\ ~call.results[1].threw
        /\ call.results[1] = call.results[2]
        /\ call.results[1].result.types = call.src.types

C15_Witness ==
    /\ call.at = "done"
    /\ call.src.form = "union"
    /\ Len(call.src.types) = MaxTypes
    /\ call.values[2] = ParenForm(call.src.types)
    /\ Len(call.results[2].result.types) = MaxTypes

---------------------------------------------------------------------------
(* Claims about AbstractCommentParser.parse *)

\* C12: parse returns a list of tags without throwing for every comment
\* (empty, without a tag, with '@' anywhere in lines and tag values), and
\* the empty list when the comment value is absent.
C12_NeverThrows ==
    call.at = "done" =>
        /\ ~call.result.threw
        /\ call.comment = Absent => call.result.tags = <<>>

---------------------------------------------------------------------------
(* Claims about DocBase.create *)

\* C11: during the creation of one doc the body of each method is run at
\* most once, whether it is reached by the calls of create, by another
\* method's _ensureApplied or by the loop of _apply.
C11_RuleBodyOnce ==
    doc.at # "none" => \A m \in Methods : doc.executed[m] <= 1

\* _$name was demanded by create, by _$importStyle and by _$longname, and
\* _$memberof was reached from _$longname before the loop came to it.
C11_Witness ==
    /\ doc.at = "created"
    /\ doc.order = Declared(AlphabeticalOrder, doc.declared)
    /\ "_$static" \in doc.declared
    /\ \A m \in doc.declared : doc.executed[m] = 1


\* The annotations the claim calls malformed: an empty type clause, an empty
\* alternative, or no name where a name is requested.
Malformed(tag) ==
    \/ tag.tagName \in {TagParam, TagProperty} /\ tag.tagValue \in {EmptyType, EmptyAlternative, NoName}
    \/ tag.tagName \in {TagReturn, TagReturns} /\ tag.tagValue \in {EmptyType, EmptyAlternative}

\* C13: when a @param, @property or @return value of a doc is malformed,
\* creating the doc does not fail; the annotation is reported to the invalid
\* collection and left out of the doc, and the other methods and annotations
\* are still processed.
C13_MalformedSkipped ==
    /\ doc.at # "error"
    /\ doc.at = "created" =>
          /\ \A i \in 1..Len(doc._commentTags) :
                Malformed(doc._commentTags[i]) => doc._commentTags[i].tagValue \in Range(doc.invalid)
          /\ doc.declared \subseteq doc._appliedMethods

\* A method of the doc's class looks for the tag name.
HandledTag(d, tagName) == \E m \in d.declared : tagName \in RuleTagNames(m)

\* C17: after a doc is created every tag of its tag list is exactly once, in
\* the order of the list, in tagsKnown or in tagsUnknown; it is in tagsKnown
\* if and only if a method of the doc's class handles its tag name; no tag
\* name makes the creation fail.
C17_KnownIffHandled ==
    /\ doc.at = "created" =>
          LET known == Range(doc._value.tagsKnown)
              IsKnown(t) == t \in known
              IsUnknown(t) == t \notin known
          IN  /\ doc._value.tagsKnown = SelectSeq(doc._commentTags, IsKnown)
              /\ doc._value.tagsUnknown = SelectSeq(doc._commentTags, IsUnknown)
              /\ \A i \in 1..Len(doc._commentTags) :
                    IsKnown(doc._commentTags[i]) <=> HandledTag(doc, doc._commentTags[i].tagName)
    /\ doc.at = "error" => doc.failedIn \in Methods

---------------------------------------------------------------------------
(* Claims about the extends chain pass *)

DerivedLists(d) ==
    <<d._custom_direct_subclasses, d._custom_indirect_subclasses,
      d._custom_direct_implemented, d._custom_indirect_implemented,
      d._custom_indirect_implements, d._custom_dependent_file_paths>>

\* C19: when the extends chain pass has run a second time on a store from
\* which no doc was removed and to which none was added, every derived list
\* of every doc is what it was after the first run.
C19_SecondPassSame ==
    (run = 1 /\ pc = "necessary" /\ Len(docs) = Len(prevDocs)) =>
        \A i \in 1..Len(docs) : DerivedLists(docs[i]) = DerivedLists(prevDocs[i])

\* The second pass has ended on a store where it filled subclass,
\* implemented and file path lists with two entries.
C19_Witness ==
    /\ run = 1
    /\ pc = "necessary"
    /\ docs[4]._custom_direct_implemented = <<ClassLongname("A"), ClassLongname("B")>>
    /\ docs[4]._custom_direct_subclasses = <<ClassLongname("B")>>
    /\ docs[4]._custom_indirect_subclasses = <<ClassLongname("A")>>
    /\ docs[2]._custom_indirect_implements # Undefined
    /\ DerivedLists(docs[4]) = DerivedLists(prevDocs[4])

---------------------------------------------------------------------------
(* Claims about the common path pass *)

\* A doc that is neither code in memory nor an external.
IsRealDoc(d) == d.kind \notin {"ModuleMemory", "VirtualExternal"}

\* The directories that the file paths of the real docs share.
RECURSIVE RealCommonPrefix(_, _)
RealCommonPrefix(db, i) ==
    IF i > Len(db) THEN NoString
    ELSE IF ~IsRealDoc(db[i]) THEN RealCommonPrefix(db, i + 1)
    ELSE IF RealCommonPrefix(db, i + 1) = NoString THEN db[i].filePath
    ELSE CommonPrefix(db[i].filePath, RealCommonPrefix(db, i + 1))

RealCommonPath(db) ==
    IF RealCommonPrefix(db, 1) = NoString THEN <<>> ELSE DirPart(RealCommonPrefix(db, 1))

WithoutPrefix(prefix, s) ==
    IF s # NoString /\ IsPrefixOf(prefix, s) THEN Drop(s, Len(prefix)) ELSE s

\* C20: the common path pass leaves the docs of code in memory and of
\* externals as they are, and their file paths take no part in the shared
\* path; of every other doc the path shared by those docs is taken off the
\* start of longname, memberof and name, and no other field changes.
C20_OnlyRealDocs ==
    (pc = "extends" /\ classIdx = 0 /\ config.removeCommonPath) =>
        /\ Len(docs) = Len(prevDocs)
        /\ \A i \in 1..Len(docs) :
              docs[i] = IF IsRealDoc(prevDocs[i])
                        THEN [prevDocs[i] EXCEPT
                                !.longname = WithoutPrefix(RealCommonPath(prevDocs), @),
                                !.memberof = WithoutPrefix(RealCommonPath(prevDocs), @),
                                !.name = WithoutPrefix(RealCommonPath(prevDocs), @)]
                        ELSE prevDocs[i]

---------------------------------------------------------------------------
(* Claims about the order of the rules *)

\* The bodies of the methods of an enumeration, one after the other.
RECURSIVE BodiesInOrder(_, _, _)
BodiesInOrder(d, order, i) ==
    IF i > Len(order) THEN d ELSE BodiesInOrder(Body(d, order[i]), order, i + 1)

\* The value of a doc of the typedef class when each method has run once, in
\* the order in which the class declares them.
ValueInDeclarationOrder(d) ==
    [BodiesInOrder([NewDoc(d._commentTags, TypedefOrder, d.declared, d.debug, d.tagMethods)
                       EXCEPT !._value.has = {"filePath", "static"}],
                   TypedefOrder, 1)._value
        EXCEPT !.tagsKnown = KnownTags(d._commentTags, d.tagMethods),
               !.tagsUnknown = UnknownTags(d._commentTags, d.tagMethods)]

\* C21: for a fixed class and tag list, the value of the created doc is the
\* same for every order in which _apply enumerates the methods: it is the
\* value that the declaration order gives, in whatever order they ran.
C21_AnyOrderSameValue ==
    doc.at = "created" => doc._value = ValueInDeclarationOrder(doc)

\* The same for the docs whose methods are enumerated in declaration order.
DeclarationOrderGivesValue ==
    (doc.at = "created" /\ doc.order = TypedefOrder) => doc._value = ValueInDeclarationOrder(doc)

\* The same for the docs without a @type tag beside the @typedef tag.
OneTypeTagSameValue ==
    (doc.at = "created" /\ ~(Finds(doc._commentTags, {TagType}) /\ Finds(doc._commentTags, {TagTypedef})))
        => doc._value = ValueInDeclarationOrder(doc)

---------------------------------------------------------------------------
(* Claims about the implements lists of the extends chain pass *)

\* C22: after the inheritance pass, for every class D and every ancestor A
\* on D's chain, each name in A's implements list is in D's indirect
\* implements list and, when a doc has that name, D is in that doc's indirect
\* implemented list; and each name in D's own implements list that a doc has
\* lists D in that doc's direct implemented list.
C22_ImplementsTransmitted ==
    pc = "necessary" =>
        \A d \in 1..Len(docs) :
            IsClass(docs[d]) =>
                /\ \A k \in 1..Len(Ancestors(docs, d)) :
                      LET names == docs[Ancestors(docs, d)[k]].implements IN
                      \A n \in 1..Len(names) :
                          /\ Includes(ListOrEmpty(docs[d]._custom_indirect_implements), names[n])
                          /\ findByName(docs, names[n]) # 0 =>
                                Includes(ListOrEmpty(docs[findByName(docs, names[n])]._custom_indirect_implemented),
                                         docs[d].longname)
                /\ \A n \in 1..Len(docs[d].implements) :
                      findByName(docs, docs[d].implements[n]) # 0 =>
                          Includes(ListOrEmpty(docs[findByName(docs, docs[d].implements[n])]._custom_direct_implemented),
                                   docs[d].longname)

\* The pass has ended on C extends B extends A where A implements I and J, B
\* implements a name no doc has and C implements I: C indirectly implements
\* I, J and the unknown name, I lists C as direct and as indirect implementor.
C22_Witness ==
    /\ pc = "necessary"
    /\ docs[2].implements = <<ClassLongname("I"), ClassLongname("J")>>
    /\ docs[3].implements = <<Str1("X")>> /\ docs[3].extends = <<ClassLongname("A")>>
    /\ docs[4].implements = <<ClassLongname("I")>> /\ docs[4].extends = <<ClassLongname("B")>>
    /\ docs[4]._custom_indirect_implements = <<Str1("X"), ClassLongname("I"), ClassLongname("J")>>
    /\ docs[5]._custom_direct_implemented = <<ClassLongname("A"), ClassLongname("C")>>
    /\ Includes(docs[5]._custom_indirect_implemented, ClassLongname("C"))
    /\ Includes(docs[6]._custom_indirect_implemented, ClassLongname("C"))

\* No element of the list occurs twice.
NoRepeat(l) == \A i, j \in 1..Len(l) : l[i] = l[j] => i = j

\* C30: after the inheritance pass no derived list of any doc (direct
\* subclasses, indirect subclasses, direct implemented, indirect implemented,
\* indirect implements) holds the same longname more than once.
C30_NoRepeatedLongname ==
    pc = "necessary" =>
        \A i \in 1..Len(docs) :
            /\ NoRepeat(ListOrEmpty(docs[i]._custom_direct_subclasses))
            /\ NoRepeat(ListOrEmpty(docs[i]._custom_indirect_subclasses))
            /\ NoRepeat(ListOrEmpty(docs[i]._custom_direct_implemented))
            /\ NoRepeat(ListOrEmpty(docs[i]._custom_indirect_implemented))
            /\ NoRepeat(ListOrEmpty(docs[i]._custom_indirect_implements))

\* The same for the stores in which no class names an interface twice and no
\* interface is named by two classes of one chain.
NoRepeatWhenNamedOnce ==
    (pc = "necessary"
        /\ \A d \in 1..Len(docs) :
              /\ NoRepeat(docs[d].implements)
              /\ \A k \in 1..Len(Ancestors(docs, d)) : \A m \in 1..Len(Ancestors(docs, d)) :
                    \A n \in 1..Len(docs[Ancestors(docs, d)[k]].implements) :
                        Includes(docs[Ancestors(docs, d)[m]].implements,
                                 docs[Ancestors(docs, d)[k]].implements[n]) => k = m)
        => C30_NoRepeatedLongname

---------------------------------------------------------------------------
(* Claims about unions and generic types *)

\* The number of '<' less the number of '>' in the first n characters.
RECURSIVE AngleDepth(_, _)
AngleDepth(t, n) ==
    IF n = 0 THEN 0
    ELSE AngleDepth(t, n - 1) + (IF t[n] = "<" THEN 1 ELSE IF t[n] = ">" THEN -1 ELSE 0)

\* A '|' of the text lies inside a '<...>' group.
PipeInsideGeneric(t) == \E n \in 1..Len(t) : t[n] = "|" /\ AngleDepth(t, n) > 0

\* The text starts with a variadic group '...( ... )'.
StartsWithVariadicGroup(t) ==
    /\ Len(t) >= 5
    /\ SubSeq(t, 1, 4) = <<".", ".", ".", "(">>
    /\ \E n \in 5..Len(t) : t[n] = ")"

\* C23: a type text that is no record type and is not wrapped in
\* parentheses is kept whole as one alternative exactly when a '|' lies
\* inside a '<...>' group or the text starts with a variadic '...(' group; a
\* text whose every '|' is outside all generic brackets is split on '|' into
\* its alternatives, also when alternatives contain generic brackets.
C23_SplitOutsideGenerics ==
    (call.at = "done" /\ call.src.form = "generic") =>
        LET t == JoinBar(call.src.types)
            r == call.results[1]
        IN  /\ ~r.threw
            /\ r.result.types = IF PipeInsideGeneric(t) \/ StartsWithVariadicGroup(t)
                                 THEN <<t>> ELSE Split(t, "|")

\* The same for the texts in which no '<' stands before a '|' that is
\* outside the generic brackets.
SplitWhenNoGenericBeforePipe ==
    (call.at = "done" /\ call.src.form = "generic"
        /\ \A n \in 1..Len(JoinBar(call.src.types)) :
              (JoinBar(call.src.types)[n] = "|" /\ AngleDepth(JoinBar(call.src.types), n) = 0)
                  => ~Includes(SubSeq(JoinBar(call.src.types), 1, n), "<"))
        => C23_SplitOutsideGenerics

---------------------------------------------------------------------------
(* Claims about default values *)

\* C24: in '[name=default]' the closing bracket is found by counting the
\* depth of the brackets and the inner text is split at its first '=' only:
\* name is the text before it, defaultValue all the text after it, nested
\* brackets and further '=' included, and defaultRaw the literal value of
\* defaultValue or, when it is no literal, the text.
C24_SplitAtFirstEquals ==
    (call.at = "done" /\ call.src.form = "default") =>
        LET r == call.results[1]
        IN  /\ ~r.threw
            /\ r.result.optional = "true"
            /\ r.result.name = call.src.name
            /\ r.result.defaultValue = call.src.default
            /\ r.result.defaultRaw = LiteralOr(call.src.default)

\* The same for the default texts without '='.
SplitWhenOneEquals ==
    (call.at = "done" /\ call.src.form = "default" /\ ~Includes(call.src.default, "="))
        => C24_SplitAtFirstEquals

---------------------------------------------------------------------------
(* Claims about the implicit description tag *)

\* parse has put '@desc ' before the comment: no comment of SpecComment
\* holds the text '@desc', so the first tag is @desc when parse has done so.
DescInserted(c) == Len(c.lines) >= 2 /\ c.lines[2] = TagDesc

\* The first character of the text that is no space, tab or newline is '@'.
FirstTextIsTag(text) == TrimStart(text) # <<>> /\ Head(TrimStart(text)) = "@"

\* C25: parse makes an implicit description tag exactly when the first
\* non-space character of the comment, after the whitespace and the '*' at
\* the head of each line are taken off, is not '@'; this holds for every
\* comment, also one whose first line is empty and whose first text is a tag.
C25_ImplicitDescIffNoTagFirst ==
    (call.at \in {"lines", "done"} /\ call.comment # Absent) =>
        (DescInserted(call) <=> ~FirstTextIsTag(Stripped(call.comment)))

\* The same for the comments that do not start with whitespace once the
\* heads of the lines are taken off.
ImplicitDescWhenTextFirst ==
    (call.at \in {"lines", "done"} /\ call.comment # Absent
        /\ Stripped(call.comment) = TrimStart(Stripped(call.comment)))
        => C25_ImplicitDescIffNoTagFirst

---------------------------------------------------------------------------
(* Claims about extends references that no doc has *)

\* The three lists a class leaves on its ancestors.
AncestorLists(d) ==
    <<d._custom_direct_subclasses, d._custom_indirect_subclasses, d._custom_dependent_file_paths>>

\* C26: when an extends reference matches no doc's longname the walk stops
\* there without error, the name is the first (root) entry of the origin's
\* chain, no doc's subclass or dependent file lists change on behalf of the
\* name, and the lists of the resolved ancestors below it are still filled.
C26_UnresolvedExtends ==
    [][/\ (pc = "walk" /\ findByName(docs, docs[cur].extends[1]) = 0) =>
            /\ pc' = "lists"
            /\ chains' = Append(chains, docs[cur].extends[1])
            /\ docs' = docs
       /\ (pc = "lists" /\ chains # <<>> /\ findByName(docs, chains[Len(chains)]) = 0) =>
            /\ pc' = "implemented"
            /\ Len(docs') = Len(docs)
            /\ docs'[classIdx]._custom_extends_chains[1] = chains[Len(chains)]
            /\ \A k \in 1..(Len(chains) - 1) :
                  LET a == findByName(docs, chains[k]) IN
                  /\ a # 0
                  /\ Includes(IF k = 1 THEN docs'[a]._custom_direct_subclasses
                              ELSE docs'[a]._custom_indirect_subclasses, docs[classIdx].longname)
                  /\ Includes(docs'[a]._custom_dependent_file_paths, docs[classIdx].filePath)
            /\ \A i \in 1..Len(docs) :
                  (\A k \in 1..(Len(chains) - 1) : docs[i].longname # chains[k])
                      => AncestorLists(docs'[i]) = AncestorLists(docs[i])
      ]_vars

\* The lists step has run for C extends B extends a name no doc has: the
\* chain of C is that name and then B, and B lists C as direct subclass.
C26_Witness ==
    /\ pc = "implemented" /\ run = 0
    /\ chains = <<ClassLongname("B"), Str1("X")>>
    /\ docs[classIdx].longname = ClassLongname("C")
    /\ docs[classIdx]._custom_extends_chains = <<Str1("X"), ClassLongname("B")>>
    /\ docs[3]._custom_direct_subclasses = <<ClassLongname("C")>>
    /\ docs[2]._custom_direct_subclasses = Undefined

---------------------------------------------------------------------------
(* Claims about the export promotion and the docs a resolve removes. *)

\* The doc at position i of the store was in the store, unexported, when this
\* resolve began and is exported now.
PromotedInRun(i) ==
    LET p == ById(prevDocs, docs[i].___id)
    IN  p # 0 /\ prevDocs[p].export = "false" /\ docs[i].export = "true"

\* A doc named in one of the four lists of docs[i] is in the store and
\* exported.
SurvivingExportedDescendant(i) ==
    \E c \in 1..Len(docs) :
        docs[c].longname \in DescendantNames(docs[i]) /\ docs[c].export = "true"

\* C27: when a resolve has ended, a doc whose export this resolve changed
\* from false to true names, in its subclass or implemented-by lists, an
\* exported doc that is still in the store: a descendant the resolve removed
\* for its access level or its missing documentation promotes nothing.
C27_PromotedForSurvivor ==
    pc = "done" => \A i \in 1..Len(docs) : PromotedInRun(i) => SurvivingExportedDescendant(i)

\* The statement of C27 for the resolves that remove no doc.
PromotedForSurvivorWhenNoneRemoved ==
    (pc = "done" /\ Len(docs) = Len(prevDocs)) =>
        \A i \in 1..Len(docs) : PromotedInRun(i) => SurvivingExportedDescendant(i)

\* The export of a doc changes in the export-necessity pass and nowhere
\* else.
ExportOnlyByNecessary ==
    [][pc # "necessary" =>
         \A i \in 1..Len(docs) :
             ById(docs', docs[i].___id) # 0
                 => docs'[ById(docs', docs[i].___id)].export = docs[i].export]_vars

---------------------------------------------------------------------------
(* Claims about the docs the ignore pass leaves in the store. *)

\* The doc at position i of the store is, unchanged, in the store after the
\* step.
StaysUnchanged(i) == \E j \in 1..Len(docs') : docs'[j] = docs[i]

\* C28: the ignore pass removes a doc only if the doc is flagged or its
\* longname is the longname of a flagged doc followed by '.', '~' or '#':
\* every other doc is in the store after the pass with every field as it
\* was, whatever characters the longnames contain.
C28_OnlyFlaggedAndScoped ==
    [][(pc = "ignore" /\ pc' = "testRelation") =>
         \A i \in 1..Len(docs) :
            (~docs[i].ignore /\ ~UnderFlaggedScope(docs, docs[i].longname))
                => StaysUnchanged(i)
      ]_vars

\* Characters of a longname that the pattern reads as syntax and the pass
\* does not escape.
PatternSyntax == {".", "+"}

\* The statement of C28 for the stores in which no flagged doc has such a
\* character in its longname.
OnlyFlaggedAndScopedWhenPlain ==
    [][(/\ pc = "ignore" /\ pc' = "testRelation"
        /\ \A f \in 1..Len(docs) :
              docs[f].ignore => \A k \in 1..Len(docs[f].longname) :
                                    docs[f].longname[k] \notin PatternSyntax) =>
         \A i \in 1..Len(docs) :
            (~docs[i].ignore /\ ~UnderFlaggedScope(docs, docs[i].longname))
                => StaysUnchanged(i)
      ]_vars

---------------------------------------------------------------------------
(* Claims about the longnames the duplication pass leaves without a doc. *)

\* The doc is one of a class body: a member, a property, a method, a getter
\* or a setter.
IsBodyDoc(d) == IsMemberKind(d) \/ IsMethod(d)

\* A doc of the store has this longname.
HasLongname(db, longname) == \E j \in 1..Len(db) : db[j].longname = longname

\* In the stores of SpecDup the flags the duplication pass finds are the
\* flags the docs had when the resolve began.
FlagsAtDuplicationAsAtStart ==
    pc = "duplication" =>
        /\ Len(docs) = Len(prevDocs)
        /\ \A i \in 1..Len(docs) :
              /\ docs[i].___id = prevDocs[i].___id
              /\ docs[i].longname = prevDocs[i].longname
              /\ docs[i].ignore = prevDocs[i].ignore

\* C29: if, when the duplication pass starts, a member, property, method,
\* getter or setter doc of longname L is not flagged and no enclosing scope of
\* L is flagged, then a doc of longname L is in the store when the resolve
\* has ended.
C29_LongnameNotEmptied ==
    pc = "done" =>
        \A i \in 1..Len(prevDocs) :
            (/\ IsBodyDoc(prevDocs[i])
             /\ ~prevDocs[i].ignore
             /\ ~UnderFlaggedScope(prevDocs, prevDocs[i].longname))
                => HasLongname(docs, prevDocs[i].longname)

\* The statement of C29 for the longnames of which no doc is flagged when
\* the pass starts.
LongnameNotEmptiedWhenNoneFlagged ==
    pc = "done" =>
        \A i \in 1..Len(prevDocs) :
            (/\ IsBodyDoc(prevDocs[i])
             /\ \A o \in 1..Len(prevDocs) :
                   prevDocs[o].longname = prevDocs[i].longname => ~prevDocs[o].ignore
             /\ ~UnderFlaggedScope(prevDocs, prevDocs[i].longname))
                => HasLongname(docs, prevDocs[i].longname)

====
